---- MODULE Spec2Model ----
(***************************************************************************)
(* Conference discovery and deduplication pipeline                         *)
(* (hulaizh/finance-conferences).                                          *)
(*                                                                         *)
(* Text is modelled as a sequence of characters, each character a          *)
(* one-character string; a character named by a longer string ("E_acute")  *)
(* stands for one non-ASCII code point.                                    *)
(*                                                                         *)
(* Sixteen specifications share the module:                                *)
(*   SigSpec  - the identity signature of a record (pure function)         *)
(*   Spec     - pipeline runs over the two persisted stores                *)
(*   ApiSpec  - one extraction call with its retry loop                    *)
(*   ParseSpec - the parsing of one reply text (pure function)             *)
(*   BatchSpec - one batch of concurrent extraction calls                  *)
(*   BatchFairSpec - BatchSpec with an event loop that keeps running       *)
(*   FaultSpec - pipeline runs over stores that may have become unreadable *)
(*   ExportSpec - the flat export of a final store (pure function)         *)
(*   CacheSpec - one DeepSeekProcessor with its cache and concurrent calls *)
(*   MainSpec - pipeline runs as the entry point main() starts them        *)
(*   CandSpec - the candidates of one scrape pass (both scrapers)          *)
(*   PageSpec - the list nodes of one listing page (pure function)         *)
(*   FetchSpec - one page fetch and its fallback strategies                *)
(*   CrawlSpec - the discovery and parsing of the listing pages            *)
(*   CrawlFairSpec - CrawlSpec with a scraper that keeps running           *)
(*   KeySpec  - the extraction, merge and export under each API key        *)
(***************************************************************************)
EXTENDS Integers, Sequences, FiniteSets, TLC

VARIABLES
    \* --- SigSpec: two conference_data dicts and their signatures
    confA,          \* a conference_data dict
    confB,          \* a second dict, compared with confA
    altered,        \* TRUE while confB differs from confA only by permitted alterations
    edits,          \* number of alterations applied to confB
    scraperSig,     \* <<signature of confA, signature of confB>>, scraper's implementation
    pipelineSig,    \* the same pair from the pipeline driver's implementation
    \* --- Spec: the pipeline
    ssrnFile,       \* output/ssrn.json: NoFile or a store document
    confFile,       \* output/conferences.json: NoFile or a store document
    csvFile,        \* output/conferences.csv: NoFile or the exported rows
    run,            \* the pipeline run in progress (or the last one)
    prev,           \* summary of the run before it
    runs,           \* number of runs started
    \* --- ApiSpec: one extraction call
    call,           \* the call in progress: position, attempt, result
    cache,          \* DeepSeekProcessor.cache (fingerprint -> result)
    \* --- ParseSpec: one reply text
    answer,         \* a reply: its object and what is wrapped around it
    parses,         \* what both parsers return for the object and for the reply
    \* --- BatchSpec: one batch of extraction calls
    batch,          \* process_conferences_batch: frame, semaphore, tasks
    \* --- FaultSpec: damaged store files
    unreadable,     \* the store files whose content json.load cannot parse
    \* --- CacheSpec: one DeepSeekProcessor
    proc,           \* the processor: cache, cache file, calls in progress
    \* --- the scraper's steps, each under its own specification
    cand,           \* one listing candidate and what detail enrichment returns for it
    page,           \* one listing page and what parse_conference_list returns for it
    fetch,          \* one page fetch: the strategies tried so far
    crawl           \* get_all_conference_pages: the URL list under iteration

sigVars  == <<confA, confB, altered, edits, scraperSig, pipelineSig>>
pipeVars == <<ssrnFile, confFile, csvFile, run, prev, runs>>
apiVars  == <<call, cache>>
parseVars == <<answer, parses>>
batchVars == <<batch>>
faultVars == <<unreadable>>
cacheVars == <<proc>>
scrapeVars == <<cand, page, fetch, crawl>>
vars     == <<confA, confB, altered, edits, scraperSig, pipelineSig,
              ssrnFile, confFile, csvFile, run, prev, runs, call, cache,
              answer, parses, batch, unreadable, proc,
              cand, page, fetch, crawl>>

\* the value of a variable that a specification does not use
Idle == [pc |-> "idle"]

(***************************************************************************)
(* Characters                                                              *)
(***************************************************************************)
UpperLetters ==
    <<"A","B","C","D","E","F","G","H","I","J","K","L","M",
      "N","O","P","Q","R","S","T","U","V","W","X","Y","Z">>
LowerLetters ==
    <<"a","b","c","d","e","f","g","h","i","j","k","l","m",
      "n","o","p","q","r","s","t","u","v","w","x","y","z">>
DigitChars == {"0","1","2","3","4","5","6","7","8","9"}
\* characters matched by \s
WhitespaceChars == {" ", "\t", "\n"}
\* the character class [a-z0-9\s]
KeptChars ==
    {LowerLetters[i] : i \in 1..Len(LowerLetters)} \cup DigitChars \cup WhitespaceChars

UpperSet == {UpperLetters[i] : i \in 1..Len(UpperLetters)}
LowerSet == {LowerLetters[i] : i \in 1..Len(LowerLetters)}

\* the lower-case form of each upper-case letter, and the reverse
ToLower == [c \in UpperSet |-> LowerLetters[CHOOSE i \in 1..Len(UpperLetters) : UpperLetters[i] = c]]
ToUpper == [c \in LowerSet |-> UpperLetters[CHOOSE i \in 1..Len(LowerLetters) : LowerLetters[i] = c]]

\* str.lower() on one character
CharLower(c) ==
    IF c \in UpperSet THEN ToLower[c]
    ELSE IF c = "E_acute" THEN "e_acute" ELSE c

\* str.upper() on one character
CharUpper(c) ==
    IF c \in LowerSet THEN ToUpper[c]
    ELSE IF c = "e_acute" THEN "E_acute" ELSE c

\* str.lower()
StrLower(s) == [i \in 1..Len(s) |-> CharLower(s[i])]

\* the value None of a dict entry
None == <<"<None>">>
\* str(value): the text itself, "None" for None, the digits of a number,
\* the repr of a list (values that are no text carry a tag as first element)
Str(v) ==
    IF v = None THEN <<"N","o","n","e">>
    ELSE IF v # <<>> /\ v[1] \in {"<int>", "<list>"} THEN Tail(v)
    ELSE v
\* `not text`
Falsy(v) == v = None \/ v = <<>>

\* dict.get(key, default)
Get(d, key, default) == IF key \in DOMAIN d THEN d[key] ELSE default

(***************************************************************************)
(* Identity signature, scraper (src/src/scraper.py)                        *)
(***************************************************************************)
\* re.sub(r'[^a-z0-9\s]', '', s)
RemoveSpecial(s) == SelectSeq(s, LAMBDA c : c \in KeptChars)

\* faulty variant of RemoveSpecial: the special character becomes a space
RemoveSpecial_AsSpace(s) ==
    [i \in 1..Len(s) |-> IF s[i] \in KeptChars THEN s[i] ELSE " "]

RECURSIVE DropLeadingWs(_)
DropLeadingWs(s) ==
    IF s # <<>> /\ Head(s) \in WhitespaceChars THEN DropLeadingWs(Tail(s)) ELSE s

\* re.sub(r'\s+', ' ', s)
RECURSIVE CollapseWs(_)
CollapseWs(s) ==
    IF s = <<>> THEN <<>>
    ELSE IF Head(s) \in WhitespaceChars
         THEN <<" ">> \o CollapseWs(DropLeadingWs(Tail(s)))
         ELSE <<Head(s)>> \o CollapseWs(Tail(s))

RECURSIVE DropTrailingWs(_)
DropTrailingWs(s) ==
    IF s # <<>> /\ s[Len(s)] \in WhitespaceChars
    THEN DropTrailingWs(SubSeq(s, 1, Len(s) - 1))
    ELSE s

\* str.strip()
Strip(s) == DropTrailingWs(DropLeadingWs(s))

\* faulty variant of _normalize_for_comparison: the case is kept
Normalize_KeepCase(text) ==
    IF Falsy(text) THEN <<>>
    ELSE Strip(CollapseWs(RemoveSpecial(Str(text))))

\* faulty variant of _normalize_for_comparison: punctuation is replaced by a space
Normalize_PunctAsSpace(text) ==
    IF Falsy(text) THEN <<>>
    ELSE Strip(CollapseWs(RemoveSpecial_AsSpace(StrLower(Str(text)))))

_normalize_for_comparison(text) ==
    IF Falsy(text) THEN <<>>
    ELSE Strip(CollapseWs(RemoveSpecial(StrLower(Str(text)))))

Scraper_create_conference_signature(conference_data) ==
    _normalize_for_comparison(Get(conference_data, "title", <<>>))
        \o <<"|">>
        \o _normalize_for_comparison(Get(conference_data, "location", <<>>))
        \o <<"|">>
        \o _normalize_for_comparison(Get(conference_data, "conference_dates", <<>>))

(***************************************************************************)
(* Identity signature, pipeline driver (src/main.py)                       *)
(***************************************************************************)
\* faulty variant of normalize_text: the final strip() is missing
normalize_text_NoStrip(text) ==
    IF Falsy(text) THEN <<>>
    ELSE CollapseWs(RemoveSpecial(StrLower(Str(text))))

normalize_text(text) ==
    IF Falsy(text) THEN <<>>
    ELSE Strip(CollapseWs(RemoveSpecial(StrLower(Str(text)))))

Pipeline_create_conference_signature(conference_data) ==
    normalize_text(Get(conference_data, "title", <<>>))
        \o <<"|">>
        \o normalize_text(Get(conference_data, "location", <<>>))
        \o <<"|">>
        \o normalize_text(Get(conference_data, "conference_dates", <<>>))

(***************************************************************************)
(* SigSpec: the signature applied to bounded inputs                        *)
(***************************************************************************)
\* number of alterations applied to one input
MaxEdits == 2

\* characters the seed texts are built from: a lower-case letter, an
\* upper-case letter, two kinds of whitespace, a punctuation mark
SeedChars == {"a", "B", " ", "\t", "-"}
\* inserted characters whose lower-case form lies outside [a-z0-9\s]
SpecialChars == {"|", "E_acute"}
\* inserted whitespace characters
InsertedWhitespace == {" ", "\n"}

SeedTexts ==
    {<<>>} \cup {<<c>> : c \in SeedChars} \cup {<<c, d>> : c, d \in SeedChars}

\* the example of the specification, section 8
ExampleA ==
    [title |-> <<"3","r","d"," ","F","i","n","a","n","c","e"," ","C","o","n","f",".">>,
     location |-> <<"N","Y",","," ","U","S","A">>,
     conference_dates |-> <<"1","0","-","1","2"," ","J","a","n"," ","2","0","2","6">>]
ExampleB ==
    [title |-> <<"3","R","D"," ","F","I","N","A","N","C","E"," ","C","O","N","F">>,
     location |-> <<"n","y"," ","u","s","a">>,
     conference_dates |-> <<"1","0"," ","1","2"," ","j","a","n"," ","2","0","2","6">>]
\* ExampleA with the hyphen of "10-12" deleted and the rest as in ExampleB
ExampleC ==
    [title |-> <<"3","R","D"," ","F","I","N","A","N","C","E"," ","C","O","N","F">>,
     location |-> <<"n","y"," ","u","s","a">>,
     conference_dates |-> <<"1","0","1","2"," ","j","a","n"," ","2","0","2","6">>]

Examples == {ExampleA, ExampleB, ExampleC}

SigFields == {"title", "location", "conference_dates"}

\* dicts with a free title, dicts with a None or missing field, the examples
SeedConfs ==
    {[title |-> t, location |-> <<"Y">>, conference_dates |-> <<"1">>] : t \in SeedTexts}
    \cup {[title |-> None, location |-> <<"n","y">>, conference_dates |-> <<"1">>],
          [title |-> <<"a","b">>, location |-> None, conference_dates |-> None],
          [title |-> <<"a","b">>],
          [location |-> <<"N","y">>, conference_dates |-> <<"1"," ">>],
          [description |-> <<"a">>]}
    \cup Examples

InsertAt(s, i, c) == SubSeq(s, 1, i - 1) \o <<c>> \o SubSeq(s, i, Len(s))
RemoveAt(s, i) == SubSeq(s, 1, i - 1) \o SubSeq(s, i + 1, Len(s))

IsText(d, f) == f \in DOMAIN d /\ d[f] # None

Signatures(a, b) ==
    /\ scraperSig' = <<Scraper_create_conference_signature(a),
                       Scraper_create_conference_signature(b)>>
    /\ pipelineSig' = <<Pipeline_create_conference_signature(a),
                        Pipeline_create_conference_signature(b)>>

\* confB' is confB with field f replaced by text t, one more alteration;
\* alterations are explored from the short seed texts
Alter(f, t) ==
    /\ altered
    /\ confA \notin Examples
    /\ edits < MaxEdits
    /\ confB' = [confB EXCEPT ![f] = t]
    /\ edits' = edits + 1
    /\ Signatures(confA, confB')
    /\ UNCHANGED <<confA, altered>>
    /\ UNCHANGED <<pipeVars, apiVars, parseVars, batchVars, faultVars, cacheVars, scrapeVars>>

\* the case of one letter is changed
ChangeCase ==
    \E f \in SigFields : \E i \in 1..(IF IsText(confB, f) THEN Len(confB[f]) ELSE 0) :
        LET c == confB[f][i] IN
        /\ CharLower(c) # CharUpper(c)
        /\ Alter(f, [confB[f] EXCEPT ![i] = IF CharLower(c) = c THEN CharUpper(c)
                                                                ELSE CharLower(c)])

\* a character outside [a-z0-9\s] is inserted
InsertSpecial ==
    \E f \in SigFields : \E c \in SpecialChars :
        \E i \in 1..(IF IsText(confB, f) THEN Len(confB[f]) + 1 ELSE 0) :
            Alter(f, InsertAt(confB[f], i, c))

\* a character outside [a-z0-9\s] is deleted
DeleteSpecial ==
    \E f \in SigFields : \E i \in 1..(IF IsText(confB, f) THEN Len(confB[f]) ELSE 0) :
        /\ CharLower(confB[f][i]) \notin KeptChars
        /\ Alter(f, RemoveAt(confB[f], i))

\* a whitespace character is added to a whitespace run, or at either end
LengthenWhitespace ==
    \E f \in SigFields : \E w \in InsertedWhitespace :
        \E i \in 1..(IF IsText(confB, f) THEN Len(confB[f]) + 1 ELSE 0) :
            LET s == confB[f] IN
            /\ \/ i = 1
               \/ i = Len(s) + 1
               \/ (i <= Len(s) /\ s[i] \in WhitespaceChars)
               \/ (i > 1 /\ s[i - 1] \in WhitespaceChars)
            /\ Alter(f, InsertAt(s, i, w))

\* a whitespace character is removed from a run that keeps another one, or
\* from either end
ShortenWhitespace ==
    \E f \in SigFields : \E i \in 1..(IF IsText(confB, f) THEN Len(confB[f]) ELSE 0) :
        LET s == confB[f] IN
        /\ s[i] \in WhitespaceChars
        /\ \/ i = 1
           \/ i = Len(s)
           \/ (i > 1 /\ s[i - 1] \in WhitespaceChars)
           \/ (i < Len(s) /\ s[i + 1] \in WhitespaceChars)
        /\ Alter(f, RemoveAt(s, i))

\* the signature of another dict is taken for comparison
CompareWith ==
    \E c \in SeedConfs :
        /\ altered /\ edits = 0
        /\ c # confA
        /\ confB' = c
        /\ altered' = FALSE
        /\ edits' = 0
        /\ Signatures(confA, c)
        /\ UNCHANGED confA
    /\ UNCHANGED <<pipeVars, apiVars, parseVars, batchVars, faultVars, cacheVars, scrapeVars>>

SigNext ==
    \/ ChangeCase
    \/ InsertSpecial
    \/ DeleteSpecial
    \/ LengthenWhitespace
    \/ ShortenWhitespace
    \/ CompareWith

(***************************************************************************)
(* Listing entries (ConferenceData as parsed from a listing page)          *)
(***************************************************************************)
\* a conference with punctuation in every signature field
EntryA ==
    [title |-> <<"F","i","n"," ","C","o","n","f",".">>, conference_dates |-> <<"1","-","2"," ","M","a","y">>,
     location |-> <<"N","Y",","," ","U","S","A">>, description |-> "listing text A",
     ssrn_link |-> <<"s","s","r","n","/","1">>, posted_date |-> "10 Aug 2025"]
\* the same conference listed again with other case, punctuation and spacing
EntryB ==
    [title |-> <<"F","I","N"," "," ","C","O","N","F">>, conference_dates |-> <<"1","2"," ","m","a","y">>,
     location |-> <<"n","y"," ","u","s","a">>, description |-> "listing text B",
     ssrn_link |-> <<"s","s","r","n","/","2">>, posted_date |-> "11 Aug 2025"]
\* another conference, without location
EntryC ==
    [title |-> <<"B","a","n","k","i","n","g">>, conference_dates |-> <<"J","u","n","e"," ","2","0","2","6">>,
     location |-> <<>>, description |-> "listing text C",
     ssrn_link |-> <<"s","s","r","n","/","3">>, posted_date |-> "10 Aug 2025"]
\* a title of five characters
EntryShort ==
    [title |-> <<"C","o","n","f",".">>, conference_dates |-> <<"J","u","l","y"," ","2","0","2","6">>,
     location |-> <<"R","o","m","e">>, description |-> "listing text S",
     ssrn_link |-> <<"s","s","r","n","/","4">>, posted_date |-> ""]
\* no conference dates
EntryNoDates ==
    [title |-> <<"W","o","r","k","s","h","o","p">>, conference_dates |-> <<>>,
     location |-> <<"O","s","l","o">>, description |-> "listing text N",
     ssrn_link |-> <<"s","s","r","n","/","5">>, posted_date |-> "Aug 2025"]

Entries == {EntryA, EntryB, EntryC, EntryShort, EntryNoDates}

\* the announcements in the order the listing pages show them
Site == <<EntryShort, EntryB, EntryA, EntryC, EntryNoDates>>

\* number of list elements found on the listing pages of one scrape pass
MaxListing == 2
\* number of pipeline runs
MaxRuns == 2

\* the elements of all listing pages in page order: a stretch of the site
\* of at most MaxListing announcements
Listings ==
    {q \in {SubSeq(Site, from, to) : from \in 1..Len(Site), to \in 0..Len(Site)} :
        Len(q) <= MaxListing}

\* the description found on a conference's own page
DetailText(link) ==
    CASE link = <<"s","s","r","n","/","1">> -> "detail text A"
      [] link = <<"s","s","r","n","/","2">> -> "detail text B"
      [] link = <<"s","s","r","n","/","3">> -> "detail text C"
      [] link = <<"s","s","r","n","/","4">> -> "detail text S"
      [] OTHER -> "detail text N"

\* a longer description found on a conference's own page
LongDetailText(link) ==
    CASE link = <<"s","s","r","n","/","1">> -> "long detail text A"
      [] link = <<"s","s","r","n","/","2">> -> "long detail text B"
      [] link = <<"s","s","r","n","/","3">> -> "long detail text C"
      [] link = <<"s","s","r","n","/","4">> -> "long detail text S"
      [] OTHER -> "long detail text N"

\* len(text) of the descriptions above
TextLength(text) ==
    CASE text = "" -> 0
      [] text \in {"listing text A", "listing text B", "listing text C",
                   "listing text S", "listing text N"} -> 14
      [] text \in {"detail text A", "detail text B", "detail text C",
                   "detail text S", "detail text N"} -> 13
      [] OTHER -> 18

\* what get_detailed_info meets: the page is unreachable, fetching raises,
\* the page holds no usable text, the page holds a description
DetailOutcomes == {"unreachable", "raises", "no_text", "text"}

(***************************************************************************)
(* Store documents (ssrn.json, conferences.json)                           *)
(***************************************************************************)
NoFile ==
    [exists |-> FALSE,
     metadata |-> [created |-> 0, total_conferences |-> 0, last_updated |-> 0],
     conferences |-> <<>>]

\* the structure created when the file does not exist; `now` is the time
NewStore(now) ==
    [exists |-> TRUE,
     metadata |-> [created |-> now, total_conferences |-> 0, last_updated |-> 0],
     conferences |-> <<>>]

\* json.load(f) raises for this file: it exists and its content is not a
\* JSON document (`name` is "ssrn" or "conf")
CannotLoad(name, file) == file.exists /\ name \in unreadable

\* what _load_existing_conferences and _save_conferences_to_json are left
\* with after their handlers caught the error of json.load: no record
LoadedOrNothing(name, file) == IF CannotLoad(name, file) THEN NoFile ELSE file

\* the signatures of a list of raw records (scraper's signature)
RECURSIVE SigsOf(_)
SigsOf(confs) ==
    IF confs = <<>> THEN {}
    ELSE {Scraper_create_conference_signature(Head(confs))} \cup SigsOf(Tail(confs))

\* faulty variant of _load_existing_conferences: nothing is loaded
_load_existing_conferences_Empty(file) == {}

\* the signatures of the records of ssrn.json; a missing file gives none
_load_existing_conferences(file) ==
    IF file.exists
    THEN {Scraper_create_conference_signature(
              [title |-> Str(Get(file.conferences[i], "title", <<>>)),
               location |-> Str(Get(file.conferences[i], "location", <<>>)),
               conference_dates |-> Str(Get(file.conferences[i], "conference_dates", <<>>))]) :
          i \in 1..Len(file.conferences)}
    ELSE {}

\* faulty variant of AppendNew: an appended signature is not remembered
RECURSIVE AppendNew_Forgetful(_, _, _)
AppendNew_Forgetful(stored, existing_signatures, conferences) ==
    IF conferences = <<>> THEN stored
    ELSE LET conference == Head(conferences)
             signature == Scraper_create_conference_signature(conference)
         IN  IF signature \notin existing_signatures
             THEN AppendNew_Forgetful(Append(stored, conference),
                                      existing_signatures, Tail(conferences))
             ELSE AppendNew_Forgetful(stored, existing_signatures, Tail(conferences))

\* the append loop of _save_conferences_to_json
RECURSIVE AppendNew(_, _, _)
AppendNew(stored, existing_signatures, conferences) ==
    IF conferences = <<>> THEN stored
    ELSE LET conference == Head(conferences)
             signature == Scraper_create_conference_signature(conference)
         IN  IF signature \notin existing_signatures
             THEN AppendNew(Append(stored, conference),
                            existing_signatures \cup {signature}, Tail(conferences))
             ELSE AppendNew(stored, existing_signatures, Tail(conferences))

\* `now` is the time of the write
_save_conferences_to_json(conferences, file, now) ==
    LET data == IF file.exists THEN file ELSE NewStore(now)
        existing_signatures ==
            {Scraper_create_conference_signature(data.conferences[i]) :
                 i \in 1..Len(data.conferences)}
        appended == AppendNew(data.conferences, existing_signatures, conferences)
    IN  [exists |-> TRUE,
         metadata |-> [created |-> data.metadata.created,
                       total_conferences |-> Len(appended),
                       last_updated |-> now],
         conferences |-> appended]

(***************************************************************************)
(* Scrape pass (UnifiedConferenceScraper.scrape_conferences)               *)
(***************************************************************************)
\* `not title or len(title) <= 5`
TitleTooShort(conference) == Falsy(conference.title) \/ Len(conference.title) <= 5

\* `not dates or dates.strip() == '' or dates == 'nan'`
NoDates(conference) ==
    \/ Falsy(conference.conference_dates)
    \/ Strip(conference.conference_dates) = <<>>
    \/ conference.conference_dates = <<"n","a","n">>

\* get_detailed_info as its caller sees it: it raises, or it returns a
\* dict whose description is '' unless the page was fetched and held text
get_detailed_info(conference_url, outcome) ==
    [raised |-> outcome = "raises",
     description |-> CASE outcome = "text" -> DetailText(conference_url)
                       [] outcome = "long_text" -> LongDetailText(conference_url)
                       [] OTHER -> ""]

\* faulty variant of process_conference_with_details: the description is
\* whatever the detail fetch returned
process_conference_with_details_AnyText(element, outcome) ==
    IF TitleTooShort(element) \/ NoDates(element)
    THEN [kept |-> FALSE, fetched |-> FALSE, conference |-> element]
    ELSE LET detailed_info == get_detailed_info(element.ssrn_link, outcome)
         IN  [kept |-> TRUE, fetched |-> element.ssrn_link # <<>>,
              conference |->
                  [title |-> element.title,
                   conference_dates |-> element.conference_dates,
                   location |-> element.location,
                   description |-> IF element.ssrn_link # <<>>
                                   THEN detailed_info.description
                                   ELSE element.description,
                   ssrn_link |-> element.ssrn_link,
                   posted_date |-> element.posted_date]]

\* [kept, fetched, conference]: whether a record is returned, whether the
\* detail page was requested, the record
process_conference_with_details(element, outcome) ==
    IF TitleTooShort(element) \/ NoDates(element)
    THEN [kept |-> FALSE, fetched |-> FALSE, conference |-> element]
    ELSE LET detailed_info == get_detailed_info(element.ssrn_link, outcome)
             detailed_description ==
                 IF /\ element.ssrn_link # <<>>
                    /\ ~detailed_info.raised
                    /\ detailed_info.description # ""
                 THEN detailed_info.description
                 ELSE element.description
         IN  [kept |-> TRUE, fetched |-> element.ssrn_link # <<>>,
              conference |->
                  [title |-> element.title,
                   conference_dates |-> element.conference_dates,
                   location |-> element.location,
                   description |-> detailed_description,
                   ssrn_link |-> element.ssrn_link,
                   posted_date |-> element.posted_date]]

\* the ConferenceData of the earlier scraper has no posted date
EarlierElement(element) ==
    [key \in DOMAIN element \ {"posted_date"} |-> element[key]]

\* process_conference_with_details of the earlier scraper (ConferenceScraper):
\* no test of the dates, and the fetched text replaces the description when
\* it is longer; get_detailed_info and fetch_page catch their exceptions
Earlier_process_conference_with_details(element, outcome) ==
    IF TitleTooShort(element)
    THEN [kept |-> FALSE, fetched |-> FALSE, conference |-> element]
    ELSE LET detailed_info == get_detailed_info(element.ssrn_link, outcome)
             description ==
                 IF /\ element.ssrn_link # <<>>
                    /\ detailed_info.description # ""
                    /\ TextLength(detailed_info.description) > TextLength(element.description)
                 THEN detailed_info.description
                 ELSE element.description
         IN  [kept |-> TRUE, fetched |-> element.ssrn_link # <<>>,
              conference |->
                  [title |-> element.title,
                   conference_dates |-> element.conference_dates,
                   location |-> element.location,
                   description |-> description,
                   ssrn_link |-> element.ssrn_link]]

\* faulty variant of IsNewElement: every valid element is new
IsNewElement_Always(element, existing_signatures) ==
    ~TitleTooShort(element)

\* the list-level comparison: the element goes to new_elements
IsNewElement(element, existing_signatures) ==
    /\ ~TitleTooShort(element)
    /\ Scraper_create_conference_signature(
           [title |-> element.title, location |-> element.location,
            conference_dates |-> element.conference_dates]) \notin existing_signatures

\* the results of process_conference_with_details over new_elements
Processed(new_elements, outcomes) ==
    [i \in 1..Len(new_elements) |->
        process_conference_with_details(new_elements[i], outcomes[i])]

RECURSIVE KeptOf(_)
KeptOf(results) ==
    IF results = <<>> THEN <<>>
    ELSE (IF Head(results).kept THEN <<Head(results).conference>> ELSE <<>>)
             \o KeptOf(Tail(results))

RECURSIVE FetchedOf(_)
FetchedOf(results) ==
    IF results = <<>> THEN <<>>
    ELSE (IF Head(results).fetched THEN <<Head(results).conference.ssrn_link>> ELSE <<>>)
             \o FetchedOf(Tail(results))

\* `fetched`: the listing pages could be fetched; `elements`: what
\* parse_conference_list found on them; `outcomes[i]`: what the detail fetch
\* of the i-th new element meets
scrape_conferences(file, fetched, elements, outcomes, now) ==
    LET existing_signatures == _load_existing_conferences(file)
        all_conference_elements == IF fetched THEN elements ELSE <<>>
        new_elements ==
            SelectSeq(all_conference_elements,
                      LAMBDA e : IsNewElement(e, existing_signatures))
        results == Processed(new_elements, outcomes)
        conferences == KeptOf(results)
    IN  [existing_signatures |-> existing_signatures,
         all_conference_elements |-> all_conference_elements,
         new_elements |-> new_elements,
         detail_fetched |-> FetchedOf(results),
         conferences |-> conferences,
         file |-> IF conferences # <<>>
                  THEN _save_conferences_to_json(conferences, file, now)
                  ELSE file]

(***************************************************************************)
(* The candidates of one scrape pass, one at a time (scrape_conferences    *)
(* of both scrapers, in both fetch_details modes, over an empty store)     *)
(***************************************************************************)
\* a candidate without a link to its own page
EntryNoLink == [EntryC EXCEPT !.ssrn_link = <<>>]
\* a candidate whose dates are blanks
EntryBlankDates == [EntryA EXCEPT !.conference_dates = <<" ", " ">>]

Candidates == Entries \cup {EntryNoLink, EntryBlankDates}

\* number of list elements of one pass
MaxCand == 2

\* what the detail fetch meets in the earlier scraper, whose
\* get_detailed_info and fetch_page catch every exception
EarlierDetailOutcomes == {"unreachable", "no_text", "text", "long_text"}

\* the dict of basic info that scrape_conferences builds without details
BasicRecord(element) == [key \in DOMAIN element |-> element[key]]

NewPass(impl, fetch_details, elements) ==
    [pc |-> "compare", impl |-> impl, fetch_details |-> fetch_details,
     elements |-> elements, new_elements |-> <<>>,
     outcomes |-> <<>>, results |-> <<>>, conferences |-> <<>>]

\* the list-level loop: the unified scraper keeps the elements with a title
\* of more than 5 characters whose signature is not stored; the earlier
\* scraper has no such loop
ListLevel ==
    /\ cand.pc = "compare"
    /\ LET new_elements ==
               IF cand.impl = "unified"
               THEN SelectSeq(cand.elements, LAMBDA e : IsNewElement(e, {}))
               ELSE cand.elements
       IN  cand' = [cand EXCEPT !.new_elements = new_elements,
                                !.pc = IF ~cand.fetch_details THEN "basic"
                                       ELSE "details"]
    /\ UNCHANGED <<page, fetch, crawl>>
    /\ UNCHANGED <<sigVars, pipeVars, apiVars, parseVars, batchVars, faultVars, cacheVars>>

\* fetch_details=False: the basic info is returned; the earlier scraper
\* tests the title here
ReturnBasic ==
    /\ cand.pc = "basic"
    /\ LET kept == IF cand.impl = "unified" THEN cand.new_elements
                   ELSE SelectSeq(cand.new_elements, LAMBDA e : ~TitleTooShort(e))
       IN  cand' = [cand EXCEPT !.pc = "done",
                                !.conferences = [i \in 1..Len(kept) |-> BasicRecord(kept[i])]]
    /\ UNCHANGED <<page, fetch, crawl>>
    /\ UNCHANGED <<sigVars, pipeVars, apiVars, parseVars, batchVars, faultVars, cacheVars>>

\* fetch_details=True: the next candidate is processed; its detail page is
\* unreachable, raises, holds no text, or holds a text
ProcessCandidate ==
    /\ cand.pc = "details"
    /\ Len(cand.results) < Len(cand.new_elements)
    /\ \E outcome \in IF cand.impl = "unified" THEN DetailOutcomes \cup {"long_text"}
                       ELSE EarlierDetailOutcomes :
           LET element == cand.new_elements[Len(cand.results) + 1]
               result == IF cand.impl = "unified"
                         THEN process_conference_with_details(element, outcome)
                         ELSE Earlier_process_conference_with_details(element, outcome)
           IN  cand' = [cand EXCEPT !.outcomes = Append(@, outcome),
                                    !.results = Append(@, result)]
    /\ UNCHANGED <<page, fetch, crawl>>
    /\ UNCHANGED <<sigVars, pipeVars, apiVars, parseVars, batchVars, faultVars, cacheVars>>

\* fetch_details=True: every candidate has been processed
ReturnDetailed ==
    /\ cand.pc = "details"
    /\ Len(cand.results) = Len(cand.new_elements)
    /\ cand' = [cand EXCEPT !.pc = "done", !.conferences = KeptOf(cand.results)]
    /\ UNCHANGED <<page, fetch, crawl>>
    /\ UNCHANGED <<sigVars, pipeVars, apiVars, parseVars, batchVars, faultVars, cacheVars>>

CandNext ==
    \/ ListLevel
    \/ ReturnBasic
    \/ ProcessCandidate
    \/ ReturnDetailed

(***************************************************************************)
(* Pipeline driver (ConferencePipeline, src/main.py)                       *)
(***************************************************************************)
\* ConferenceResult
EmptyResult ==
    [submission_deadline |-> <<>>, submission_fees |-> <<>>,
     registration_fees |-> <<>>, continent |-> <<>>]
FilledResult ==
    [submission_deadline |-> <<"2","0","2","6","/","0","1","/","3","1">>, submission_fees |-> <<"$","5","0">>,
     registration_fees |-> <<"$","4","0","0">>, continent |-> <<"E","u","r","o","p","e">>]
\* what one extraction call of a batch returns
ExtractionResults == {EmptyResult, FilledResult}

\* the signature of a record of conferences.json
FinalSignature(conf) ==
    Pipeline_create_conference_signature(
        [title |-> Get(conf, "Title", <<>>),
         location |-> Get(conf, "Location", <<>>),
         conference_dates |-> Get(conf, "Conference Date", <<>>)])

\* the signature of a record of ssrn.json, as the driver takes it
RawSignature(conf) ==
    Pipeline_create_conference_signature(
        [title |-> Get(conf, "title", <<>>),
         location |-> Get(conf, "location", <<>>),
         conference_dates |-> Get(conf, "conference_dates", <<>>)])

\* faulty variant of ExistingFinalSignatures: the final store is never consulted
ExistingFinalSignatures_None(conf_file, force_reprocess) == {}

\* existing_signatures of find_new_conferences_for_claude
ExistingFinalSignatures(conf_file, force_reprocess) ==
    IF ~force_reprocess /\ conf_file.exists
    THEN {FinalSignature(conf_file.conferences[i]) : i \in 1..Len(conf_file.conferences)}
    ELSE {}

\* faulty variant of find_new_conferences_for_claude: only the first new
\* record is selected
find_new_conferences_for_claude_FirstOnly(ssrn_file, conf_file, force_reprocess) ==
    IF ~ssrn_file.exists
    THEN [found |-> FALSE, rows |-> <<>>]
    ELSE LET existing_signatures == ExistingFinalSignatures(conf_file, force_reprocess)
             rows == SelectSeq(ssrn_file.conferences,
                               LAMBDA conf : RawSignature(conf) \notin existing_signatures)
         IN  [found |-> TRUE, rows |-> IF rows = <<>> THEN rows ELSE <<Head(rows)>>]

\* [found, rows]: found is FALSE where the function returns None
find_new_conferences_for_claude(ssrn_file, conf_file, force_reprocess) ==
    IF ~ssrn_file.exists
    THEN [found |-> FALSE, rows |-> <<>>]
    ELSE LET existing_signatures == ExistingFinalSignatures(conf_file, force_reprocess)
         IN  [found |-> TRUE,
              rows |-> SelectSeq(ssrn_file.conferences,
                                 LAMBDA conf : RawSignature(conf) \notin existing_signatures)]

\* a row of the processed frame: the raw record and the four result columns
ProcessedRow(row, result) ==
    row @@ ("Submission Deadline" :> result.submission_deadline)
        @@ ("Submission Fees" :> result.submission_fees)
        @@ ("Registration Fees" :> result.registration_fees)
        @@ ("Continent" :> result.continent)

\* fillna('').astype(str).replace(['nan', 'None', 'null'], '')
CleanClaudeColumn(value) ==
    IF value \in {<<"n","a","n">>, <<"N","o","n","e">>, <<"n","u","l","l">>} THEN <<>> ELSE value

\* the record of conferences.json made from a processed row
FinalRecord(row) ==
    ("Title" :> row.title)
        @@ ("Conference Date" :> row.conference_dates)
        @@ ("Location" :> row.location)
        @@ ("Deadline" :> CleanClaudeColumn(row["Submission Deadline"]))
        @@ ("Link" :> row.ssrn_link)
        @@ ("Submission Fee" :> CleanClaudeColumn(row["Submission Fees"]))
        @@ ("Registration Fee" :> CleanClaudeColumn(row["Registration Fees"]))
        @@ ("Continent" :> CleanClaudeColumn(row["Continent"]))
        @@ ("Posted Date" :> row.posted_date)

\* faulty variant of MergeRecords: the new records replace the stored ones
MergeRecords_Replace(stored, new_conferences_list) == new_conferences_list

\* data['conferences'].extend(new_conferences_list)
MergeRecords(stored, new_conferences_list) == stored \o new_conferences_list

\* faulty variant of update_conferences_json: a row without any extracted
\* field is not merged
update_conferences_json_SkipEmpty(processed, conf_file, now) ==
    LET extracted == SelectSeq(processed, LAMBDA row :
                         \E column \in {"Submission Deadline", "Submission Fees",
                                        "Registration Fees", "Continent"} : row[column] # <<>>)
        new_conferences_list == [i \in 1..Len(extracted) |-> FinalRecord(extracted[i])]
        data == IF conf_file.exists THEN conf_file ELSE NewStore(now)
        merged == MergeRecords(data.conferences, new_conferences_list)
    IN  [exists |-> TRUE,
         metadata |-> [created |-> data.metadata.created,
                       total_conferences |-> Len(merged),
                       last_updated |-> now],
         conferences |-> merged]

\* faulty variant of update_conferences_json: the metadata section is
\* made anew at every merge
update_conferences_json_NewMetadata(processed, conf_file, now) ==
    LET new_conferences_list == [i \in 1..Len(processed) |-> FinalRecord(processed[i])]
        data == IF conf_file.exists THEN conf_file ELSE NewStore(now)
        merged == MergeRecords(data.conferences, new_conferences_list)
    IN  [exists |-> TRUE,
         metadata |-> [created |-> now,
                       total_conferences |-> Len(merged),
                       last_updated |-> now],
         conferences |-> merged]

\* the file written by update_conferences_json for a non-empty frame
update_conferences_json(processed, conf_file, now) ==
    LET new_conferences_list == [i \in 1..Len(processed) |-> FinalRecord(processed[i])]
        data == IF conf_file.exists THEN conf_file ELSE NewStore(now)
        merged == MergeRecords(data.conferences, new_conferences_list)
    IN  [exists |-> TRUE,
         metadata |-> [created |-> data.metadata.created,
                       total_conferences |-> Len(merged),
                       last_updated |-> now],
         conferences |-> merged]

(***************************************************************************)
(* Flat export (_generate_csv_from_json, _sort_conferences_final)          *)
(***************************************************************************)
\* sub in s
RECURSIVE Contains(_, _)
Contains(s, sub) ==
    IF Len(s) < Len(sub) THEN FALSE
    ELSE IF SubSeq(s, 1, Len(sub)) = sub THEN TRUE
    ELSE Contains(Tail(s), sub)

SampleKeywords == {<<"s","a","m","p">>, <<"s","m","p">>, <<"t","r","i","a","l">>}

\* faulty variant of contains_sample_keywords: the field is not lower-cased
contains_sample_keywords_CaseSensitive(row) ==
    \E field \in {"Title", "Location", "Link"} :
        /\ field \in DOMAIN row
        /\ ~Falsy(row[field])
        /\ \E keyword \in SampleKeywords : Contains(row[field], keyword)

\* keywords in Title, Location or Link, in any letter case
contains_sample_keywords(row) ==
    \E field \in {"Title", "Location", "Link"} :
        /\ field \in DOMAIN row
        /\ ~Falsy(row[field])
        /\ \E keyword \in SampleKeywords : Contains(StrLower(row[field]), keyword)

\* parse_posted_date on the posted dates of the listing entries, as
\* year * 10000 + month * 100 + day; datetime.min is 10101
parse_posted_date(date_str) ==
    CASE date_str = "10 Aug 2025" -> 20250810
      [] date_str = "11 Aug 2025" -> 20250811
      [] date_str = "Aug 2025" -> 20250101
      [] date_str = "2025-08-12" -> 20250812
      [] date_str = "31 Feb 2026" -> 20260101
      [] OTHER -> 10101

\* characters in code point order
CodeOrder ==
    <<"\t", "\n", " ", ",", "-", ".", "/">>
        \o <<"0","1","2","3","4","5","6","7","8","9">>
        \o UpperLetters \o LowerLetters \o <<"|", "E_acute", "e_acute">>
Ord(c) == CHOOSE i \in 1..Len(CodeOrder) : CodeOrder[i] = c

\* s < t for two texts
RECURSIVE TextLess(_, _)
TextLess(s, t) ==
    IF t = <<>> THEN FALSE
    ELSE IF s = <<>> THEN TRUE
    ELSE IF Head(s) # Head(t) THEN Ord(Head(s)) < Ord(Head(t))
    ELSE TextLess(Tail(s), Tail(t))

\* faulty variant of SortsBefore: the oldest posted date first
SortsBefore_OldestFirst(a, b) ==
    LET da == parse_posted_date(a["Posted Date"])
        db == parse_posted_date(b["Posted Date"])
    IN  da < db \/ (da = db /\ TextLess(a["Title"], b["Title"]))

\* row a is sorted before row b: by=['_sort_date', 'Title'], ascending=[False, True]
SortsBefore(a, b) ==
    LET da == parse_posted_date(a["Posted Date"])
        db == parse_posted_date(b["Posted Date"])
    IN  da > db \/ (da = db /\ TextLess(a["Title"], b["Title"]))

\* row inserted after every row that does not sort after it
RECURSIVE InsertSorted(_, _)
InsertSorted(sorted, row) ==
    IF sorted = <<>> THEN <<row>>
    ELSE IF SortsBefore(row, Head(sorted)) THEN <<row>> \o sorted
    ELSE <<Head(sorted)>> \o InsertSorted(Tail(sorted), row)

RECURSIVE SortRows(_, _)
SortRows(sorted, rows) ==
    IF rows = <<>> THEN sorted
    ELSE SortRows(InsertSorted(sorted, Head(rows)), Tail(rows))

_sort_conferences_final(df) == SortRows(<<>>, df)

\* [ok, file]: the return value and the export file
_generate_csv_from_json(conf_file, csv_file) ==
    IF ~conf_file.exists \/ conf_file.conferences = <<>>
    THEN [ok |-> FALSE, file |-> csv_file]
    ELSE LET df_filtered ==
                 SelectSeq(conf_file.conferences,
                           LAMBDA row : ~contains_sample_keywords(row))
         IN  [ok |-> TRUE,
              file |-> [exists |-> TRUE, rows |-> _sort_conferences_final(df_filtered)]]

(***************************************************************************)
(* Pipeline runs (ConferencePipeline.run_pipeline)                         *)
(***************************************************************************)
NoExport == [exists |-> FALSE, rows |-> <<>>]

\* no run yet
IdleRun ==
    [pc |-> "idle", force_scrape |-> FALSE, force_reprocess |-> FALSE,
     result |-> "none", failed_at |-> "none",
     raw_before |-> <<>>, final_before |-> <<>>,
     scraped |-> FALSE, fetched |-> FALSE, listing |-> <<>>,
     existing_signatures |-> {}, new_elements |-> <<>>,
     detail_fetched |-> <<>>, scraped_conferences |-> <<>>,
     new_conferences |-> <<>>, api_calls |-> <<>>, processed |-> <<>>,
     stages |-> <<>>, csv_before |-> NoExport,
     main |-> FALSE, argv |-> {}]

\* what is remembered of the run before the current one
Summary(r) ==
    [result |-> r.result, scraped |-> r.scraped, fetched |-> r.fetched,
     listing |-> r.listing, force_reprocess |-> r.force_reprocess]

\* faulty variant of Halt: the failure is logged and the run goes on to the export
Halt_GoOn(stage) ==
    run' = [run EXCEPT !.pc = "export", !.result = "failure", !.failed_at = stage,
                       !.stages = Append(@, stage)]

\* a stage reports failure: run_pipeline logs it and returns False
Halt(stage) ==
    run' = [run EXCEPT !.pc = "done", !.result = "failure", !.failed_at = stage,
                       !.stages = Append(@, stage)]

\* run_pipeline is entered with its flags
StartRun ==
    \E force_scrape \in BOOLEAN, force_reprocess \in BOOLEAN :
        /\ run.pc \in {"idle", "done"}
        /\ runs < MaxRuns
        /\ runs' = runs + 1
        /\ prev' = Summary(run)
        /\ run' = [IdleRun EXCEPT !.pc = "scrape",
                                  !.force_scrape = force_scrape,
                                  !.force_reprocess = force_reprocess,
                                  !.raw_before = ssrnFile.conferences,
                                  !.final_before = confFile.conferences,
                                  !.csv_before = csvFile]
        /\ UNCHANGED <<ssrnFile, confFile, csvFile>>
    /\ UNCHANGED <<sigVars, apiVars, parseVars, batchVars, faultVars, cacheVars, scrapeVars>>

\* the flags of main()'s argument parser that take no value
ParserFlags == {"--force-reprocess"}

\* the program's entry point: main() parses the command line and enters
\* run_pipeline with force_scrape=True, whatever the command line holds
Main ==
    \E argv \in SUBSET ParserFlags :
        /\ run.pc \in {"idle", "done"}
        /\ runs < MaxRuns
        /\ runs' = runs + 1
        /\ prev' = Summary(run)
        /\ run' = [IdleRun EXCEPT !.pc = "scrape",
                                  !.main = TRUE,
                                  !.argv = argv,
                                  !.force_scrape = TRUE,
                                  !.force_reprocess = ("--force-reprocess" \in argv),
                                  !.raw_before = ssrnFile.conferences,
                                  !.final_before = confFile.conferences,
                                  !.csv_before = csvFile]
        /\ UNCHANGED <<ssrnFile, confFile, csvFile>>
    /\ UNCHANGED <<sigVars, apiVars, parseVars, batchVars, faultVars, cacheVars, scrapeVars>>

\* step1_scrape_ssrn: ssrn.json exists and no rescrape is forced
Step1Skip ==
    /\ run.pc = "scrape"
    /\ ssrnFile.exists /\ ~run.force_scrape
    /\ ~CannotLoad("ssrn", ssrnFile)
    /\ run' = [run EXCEPT !.pc = "find", !.stages = Append(@, "scrape")]
    /\ UNCHANGED <<ssrnFile, confFile, csvFile, prev, runs>>
    /\ UNCHANGED <<sigVars, apiVars, parseVars, batchVars, faultVars, cacheVars, scrapeVars>>

\* step1_scrape_ssrn: ssrn.json exists, no rescrape is forced, and json.load
\* raises; the read is outside the function's try block, so the exception
\* leaves step1_scrape_ssrn and run_pipeline
Step1Raise ==
    /\ run.pc = "scrape"
    /\ ssrnFile.exists /\ ~run.force_scrape
    /\ CannotLoad("ssrn", ssrnFile)
    /\ run' = [run EXCEPT !.pc = "done", !.result = "raised", !.failed_at = "scrape",
                          !.stages = Append(@, "scrape")]
    /\ UNCHANGED <<ssrnFile, confFile, csvFile, prev, runs>>
    /\ UNCHANGED <<sigVars, apiVars, parseVars, batchVars, faultVars, cacheVars, scrapeVars>>

\* step1_scrape_ssrn: the scraper's session cannot be set up
Step1Fail ==
    /\ run.pc = "scrape"
    /\ ~(ssrnFile.exists /\ ~run.force_scrape)
    /\ Halt("scrape")
    /\ UNCHANGED <<ssrnFile, confFile, csvFile, prev, runs>>
    /\ UNCHANGED <<sigVars, apiVars, parseVars, batchVars, faultVars, cacheVars, scrapeVars>>

\* step1_scrape_ssrn: the scrape pass
Step1Scrape ==
    /\ run.pc = "scrape"
    /\ ~(ssrnFile.exists /\ ~run.force_scrape)
    /\ \E fetched \in BOOLEAN :
       \E elements \in IF fetched THEN Listings ELSE {<<>>} :
       \E outcomes \in [1..Len(elements) -> DetailOutcomes] :
           LET pass == scrape_conferences(LoadedOrNothing("ssrn", ssrnFile),
                                          fetched, elements, outcomes, runs)
           IN  /\ ssrnFile' = IF CannotLoad("ssrn", ssrnFile) THEN ssrnFile ELSE pass.file
               /\ run' = [run EXCEPT !.pc = "find",
                                     !.stages = Append(@, "scrape"),
                                     !.scraped = TRUE,
                                     !.fetched = fetched,
                                     !.listing = pass.all_conference_elements,
                                     !.existing_signatures = pass.existing_signatures,
                                     !.new_elements = pass.new_elements,
                                     !.detail_fetched = pass.detail_fetched,
                                     !.scraped_conferences = pass.conferences]
    /\ UNCHANGED <<confFile, csvFile, prev, runs>>
    /\ UNCHANGED <<sigVars, apiVars, parseVars, batchVars, faultVars, cacheVars, scrapeVars>>

\* find_new_conferences_for_claude and the branch of run_pipeline on it
FindNew ==
    /\ run.pc = "find"
    /\ LET new == find_new_conferences_for_claude(ssrnFile, confFile, run.force_reprocess)
           raises == \/ CannotLoad("ssrn", ssrnFile)
                     \/ ~run.force_reprocess /\ CannotLoad("conf", confFile)
       IN  IF ~new.found \/ raises THEN Halt("find")
           ELSE run' = [run EXCEPT !.pc = IF Len(new.rows) > 0 THEN "extract" ELSE "export",
                                   !.stages = Append(@, "find"),
                                   !.new_conferences = new.rows]
    /\ UNCHANGED <<ssrnFile, confFile, csvFile, prev, runs>>
    /\ UNCHANGED <<sigVars, apiVars, parseVars, batchVars, faultVars, cacheVars, scrapeVars>>

\* step2_process_with_claude: the scraper's session cannot be set up
Step2Fail ==
    /\ run.pc = "extract"
    /\ Halt("extract")
    /\ UNCHANGED <<ssrnFile, confFile, csvFile, prev, runs>>
    /\ UNCHANGED <<sigVars, apiVars, parseVars, batchVars, faultVars, cacheVars, scrapeVars>>

\* step2_process_with_claude without a configured API key: no request is
\* sent, every row gets empty fields
Step2NoKey ==
    /\ run.pc = "extract"
    /\ run' = [run EXCEPT !.pc = "merge",
                          !.stages = Append(@, "extract"),
                          !.processed = [i \in 1..Len(run.new_conferences) |->
                                            ProcessedRow(run.new_conferences[i], EmptyResult)]]
    /\ UNCHANGED <<ssrnFile, confFile, csvFile, prev, runs>>
    /\ UNCHANGED <<sigVars, apiVars, parseVars, batchVars, faultVars, cacheVars, scrapeVars>>

\* step2_process_with_claude: one extraction call per row
Step2Process ==
    /\ run.pc = "extract"
    /\ \E results \in [1..Len(run.new_conferences) -> ExtractionResults] :
           run' = [run EXCEPT !.pc = "merge",
                              !.stages = Append(@, "extract"),
                              !.api_calls = run.new_conferences,
                              !.processed = [i \in 1..Len(run.new_conferences) |->
                                                ProcessedRow(run.new_conferences[i], results[i])]]
    /\ UNCHANGED <<ssrnFile, confFile, csvFile, prev, runs>>
    /\ UNCHANGED <<sigVars, apiVars, parseVars, batchVars, faultVars, cacheVars, scrapeVars>>

\* update_conferences_json
Merge ==
    /\ run.pc = "merge"
    /\ ~CannotLoad("conf", confFile)
    /\ confFile' = update_conferences_json(run.processed, confFile, runs)
    /\ run' = [run EXCEPT !.pc = "export", !.stages = Append(@, "merge")]
    /\ UNCHANGED <<ssrnFile, csvFile, prev, runs>>
    /\ UNCHANGED <<sigVars, apiVars, parseVars, batchVars, faultVars, cacheVars, scrapeVars>>

\* update_conferences_json raises before it writes (conferences.json cannot
\* be read or opened): it returns False and the run stops
MergeFail ==
    /\ run.pc = "merge"
    /\ Halt("merge")
    /\ UNCHANGED <<ssrnFile, confFile, csvFile, prev, runs>>
    /\ UNCHANGED <<sigVars, apiVars, parseVars, batchVars, faultVars, cacheVars, scrapeVars>>

\* _generate_csv_from_json and the end of run_pipeline
Export ==
    /\ run.pc = "export"
    /\ LET out == IF CannotLoad("conf", confFile)
                  THEN [ok |-> FALSE, file |-> csvFile]
                  ELSE _generate_csv_from_json(confFile, csvFile)
       IN  /\ csvFile' = out.file
           /\ IF out.ok
              THEN run' = [run EXCEPT !.pc = "done", !.result = "success",
                                      !.stages = Append(@, "export")]
              ELSE Halt("export")
    /\ UNCHANGED <<ssrnFile, confFile, prev, runs>>
    /\ UNCHANGED <<sigVars, apiVars, parseVars, batchVars, faultVars, cacheVars, scrapeVars>>

PipeNext ==
    \/ StartRun
    \/ Step1Skip
    \/ Step1Fail
    \/ Step1Scrape
    \/ FindNew
    \/ Step2Fail
    \/ Step2NoKey
    \/ Step2Process
    \/ Merge
    \/ MergeFail
    \/ Export

\* the program as started from its entry point
MainNext ==
    \/ Main
    \/ Step1Fail
    \/ Step1Scrape
    \/ FindNew
    \/ Step2Fail
    \/ Step2NoKey
    \/ Step2Process
    \/ Merge
    \/ MergeFail
    \/ Export

\* records of conferences.json as earlier runs left them: titles with and
\* without a filtered keyword, in several letter cases; posted dates in two
\* of the formats, with a day that does not exist, without digits, empty
StoredRecord(title, location, posted_date) ==
    FinalRecord(ProcessedRow(
        [title |-> title, conference_dates |-> <<"J","u","n","e"," ","2","0","2","6">>,
         location |-> location, description |-> "listing text",
         ssrn_link |-> <<"s","s","r","n","/","9">>, posted_date |-> posted_date],
        EmptyResult))

StoredRecords ==
    {StoredRecord(<<"B","a","n","k","i","n","g">>, <<"R","o","m","e">>, "10 Aug 2025"),
     StoredRecord(<<"A","s","s","e","t","s">>, <<"R","o","m","e">>, "10 Aug 2025"),
     StoredRecord(<<"b","a","n","k","s">>, <<>>, "2025-08-12"),
     StoredRecord(<<"S","A","M","P","L","E"," ","C","o","n","f">>, <<"R","o","m","e">>, "11 Aug 2025"),
     StoredRecord(<<"A"," ","s","a","m","p","l","e">>, <<"O","s","l","o">>, ""),
     StoredRecord(<<"Z","u","r","i","c","h">>, <<"O","s","l","o">>, ""),
     StoredRecord(<<"C","r","e","d","i","t">>, <<"O","s","l","o">>, "soon"),
     StoredRecord(<<"M","a","c","r","o">>, <<"O","s","l","o">>, "31 Feb 2026"),
     StoredRecord(<<"R","i","s","k">>, <<"T","r","i","a","l"," ","B","a","y">>, "11 Aug 2025")}

\* number of records in the final store of an export
MaxStored == 3

\* a store document with the given records
StoreOf(records) ==
    [exists |-> TRUE,
     metadata |-> [created |-> 0, total_conferences |-> Len(records), last_updated |-> 0],
     conferences |-> records]

\* a store file is damaged between two runs (a write that was cut short, an
\* edit by hand): from now on json.load raises for it
Damage ==
    /\ run.pc \in {"idle", "done"}
    /\ \E name \in {"ssrn", "conf"} :
           /\ name \notin unreadable
           /\ IF name = "ssrn" THEN ssrnFile.exists ELSE confFile.exists
           /\ unreadable' = unreadable \cup {name}
    /\ UNCHANGED <<pipeVars, sigVars, apiVars, parseVars, batchVars, cacheVars, scrapeVars>>

\* pipeline runs and damage to the stores
FaultNext ==
    \/ StartRun
    \/ Step1Skip
    \/ Step1Raise
    \/ Step1Fail
    \/ Step1Scrape
    \/ FindNew
    \/ Step2Fail
    \/ Step2NoKey
    \/ Step2Process
    \/ Merge
    \/ MergeFail
    \/ Export
    \/ Damage

(***************************************************************************)
(* Extraction calls (call_claude_api, call_deepseek_api)                   *)
(***************************************************************************)
\* default of the retry_count parameter
retry_count == 3
\* number of extraction calls made on one processor
MaxCalls == 2
\* characters of the description that enter the cache key
CacheKeyChars == 500

\* ConferenceResult of src/deepseek.py
DeepSeekEmptyResult ==
    [submission_deadline |-> <<>>, submission_fee |-> <<>>,
     registration_fee |-> <<>>, continent |-> <<>>]

\* faulty variant of _clean_field: the value is not stripped
_clean_field_NoStrip(value) ==
    IF Falsy(value) \/ StrLower(Str(value)) \in {<<"n","a","n">>, <<"n","u","l","l">>, <<"n","o","n","e">>, <<"n","/","a">>}
    THEN <<>>
    ELSE Str(value)

\* UnifiedConferenceScraper._clean_field
_clean_field(value) ==
    IF Falsy(value) \/ StrLower(Str(value)) \in {<<"n","a","n">>, <<"n","u","l","l">>, <<"n","o","n","e">>, <<"n","/","a">>}
    THEN <<>>
    ELSE DropTrailingWs(DropLeadingWs(Str(value)))

\* a reply text is a sequence of tokens; a token is one of
\*   "fence" a code-fence marker (```)        "json"  the word json after it
\*   "nl"    a line break                 "sp"    a blank
\*   "word"  explanatory words, free of braces and quotes
\*   "{" "}" ","  the character itself
\*   "array" a JSON array (JSON that is no object)
\*   "pair"  "key": value - a quoted key, a colon and a JSON value
Tok(t) == [t |-> t, key |-> "", value |-> <<>>]
Pair(key, value) == [t |-> "pair", key |-> key, value |-> value]

\* JSON values that are no string: a number and a nested array (null is None)
NumberValue == <<"<int>", "4", "0", "0">>
NestedValue == <<"<list>", "[", "'", "U", "S", "D", "'", "]">>
\* isinstance(value, str)
IsStr(v) == v = <<>> \/ v[1] \notin {"<None>", "<int>", "<list>"}


\* the members of the object a reply holds, in the order they are written
NoFieldsObject == [k \in {} |-> <<>>]
ClaudeObject ==
    <<Pair("Submission Deadline", <<"2","0","2","6","/","0","1","/","3","1">>),
      Pair("Submission Fees", <<"N","/","A">>),
      Pair("Registration Fees", <<" ","$","4","0","0"," ">>),
      Pair("Continent", <<"E","u","r","o","p","e">>)>>
DeepSeekObject ==
    <<Pair("Submission Deadline", <<"2","0","2","6","/","0","1","/","3","1">>),
      Pair("Submission Fee", <<"N","/","A">>),
      Pair("Registration Fee", <<" ","$","4","0","0"," ">>),
      Pair("Continent", <<"E","u","r","o","p","e">>)>>
PartialObject ==
    <<Pair("Continent", <<"A","s","i","a">>), Pair("Submission Deadline", None)>>
TypedObject ==
    <<Pair("Submission Deadline", NumberValue), Pair("Continent", NestedValue)>>

\* the text of a JSON object: on one line, or one member per line
RECURSIVE Members(_, _)
Members(pairs, sep) ==
    IF pairs = <<>> THEN <<>>
    ELSE IF Len(pairs) = 1 THEN <<pairs[1]>>
    ELSE <<pairs[1], Tok(",")>> \o sep \o Members(Tail(pairs), sep)
ObjectText(pairs, pretty) ==
    LET sep == IF pretty THEN <<Tok("nl")>> ELSE <<>>
    IN  <<Tok("{")>> \o sep \o Members(pairs, sep) \o sep \o <<Tok("}")>>

\* reply texts: a JSON object; JSON that is not an object; an object inside
\* other text; no parsable JSON but quoted "key": "value" pairs; none of these
ContentForms == {"object", "non_object", "embedded", "pairs", "garbage"}
Contents ==
    {[form |-> "object", text |-> ObjectText(o, FALSE)] :
         o \in {ClaudeObject, DeepSeekObject, PartialObject, TypedObject}}
    \cup {[form |-> "embedded",
           text |-> <<Tok("word"), Tok("sp")>> \o ObjectText(o, FALSE) \o <<Tok("sp"), Tok("word")>>] :
              o \in {ClaudeObject, DeepSeekObject}}
    \cup {[form |-> "pairs", text |-> Members(o, <<Tok("nl")>>)] :
              o \in {ClaudeObject, DeepSeekObject}}
    \cup {[form |-> "non_object", text |-> <<Tok("array")>>],
          [form |-> "garbage", text |-> <<Tok("word")>>]}

\* what one request meets: an exception of the transport, a timeout, an HTTP
\* status; a reply with status 200 has a body whose json() raises, or which
\* lacks the expected structure, or which holds a text
Replies ==
    {[kind |-> k, content |-> [form |-> "garbage", text |-> <<Tok("word")>>]] :
         k \in {"exception", "timeout", "429", "500", "json_raises", "no_structure"}}
    \cup {[kind |-> "200", content |-> c] : c \in Contents}

\* the label of a reply in the history of a call
ReplyLabel(reply) == IF reply.kind = "200" THEN reply.content.form ELSE reply.kind

IsWs(tok) == tok.t \in {"nl", "sp"}

\* str.strip() on a reply text
RECURSIVE TextLStrip(_)
TextLStrip(text) ==
    IF text # <<>> /\ IsWs(Head(text)) THEN TextLStrip(Tail(text)) ELSE text
RECURSIVE TextRStrip(_)
TextRStrip(text) ==
    IF text # <<>> /\ IsWs(text[Len(text)])
    THEN TextRStrip(SubSeq(text, 1, Len(text) - 1)) ELSE text
TextStrip(text) == TextRStrip(TextLStrip(text))

\* str.split('\n'): the lines of a text, at least one
RECURSIVE SplitLines(_, _, _)
SplitLines(text, lines, line) ==
    IF text = <<>> THEN Append(lines, line)
    ELSE IF Head(text).t = "nl" THEN SplitLines(Tail(text), Append(lines, line), <<>>)
    ELSE SplitLines(Tail(text), lines, Append(line, Head(text)))

\* '\n'.join(lines)
RECURSIVE JoinLines(_)
JoinLines(lines) ==
    IF lines = <<>> THEN <<>>
    ELSE IF Len(lines) = 1 THEN lines[1]
    ELSE lines[1] \o <<Tok("nl")>> \o JoinLines(Tail(lines))

\* the removal of code-fence markers at the head of _parse_json_response;
\* a text that starts with ```json also starts with ```, so the first
\* branch takes every fenced text
StripCodeFence(content) ==
    LET starts_fence == content # <<>> /\ content[1].t = "fence"
        ends_fence == content # <<>> /\ content[Len(content)].t = "fence"
        starts_fence_json == Len(content) >= 2 /\ content[1].t = "fence" /\ content[2].t = "json"
        lines == SplitLines(content, <<>>, <<>>)
    IN  IF starts_fence /\ ends_fence
        THEN JoinLines(SubSeq(lines, 2, Len(lines) - 1))
        ELSE IF starts_fence_json /\ ends_fence
        THEN TextStrip(SubSeq(content, 3, Len(content) - 1))
        ELSE content

\* json.loads: [ok, object, data]; ok is FALSE for JSONDecodeError, object
\* tells a JSON object from other JSON, data is the dict (last key wins)
JsonLoads(text) ==
    LET s == TextStrip(text)
        inner == SelectSeq(SubSeq(s, 2, Len(s) - 1), LAMBDA tok : ~IsWs(tok))
        members_ok ==
            \/ inner = <<>>
            \/ /\ Len(inner) % 2 = 1
               /\ \A i \in 1..Len(inner) :
                      inner[i].t = (IF i % 2 = 1 THEN "pair" ELSE ",")
        keys == {inner[i].key : i \in 1..Len(inner)} \ {""}
        last(k) == CHOOSE i \in 1..Len(inner) :
                       /\ inner[i].key = k
                       /\ \A j \in (i + 1)..Len(inner) : inner[j].key # k
    IN  IF Len(s) = 1 /\ s[1].t = "array"
        THEN [ok |-> TRUE, object |-> FALSE, data |-> NoFieldsObject]
        ELSE IF Len(s) >= 2 /\ s[1].t = "{" /\ s[Len(s)].t = "}" /\ members_ok
        THEN [ok |-> TRUE, object |-> TRUE, data |-> [k \in keys |-> inner[last(k)].value]]
        ELSE [ok |-> FALSE, object |-> FALSE, data |-> NoFieldsObject]

\* content.find('{') and content.rfind('}') + 1, as positions of tokens
\* (0 for "not found")
FindBrace(content) ==
    IF \E i \in 1..Len(content) : content[i].t = "{"
    THEN CHOOSE i \in 1..Len(content) :
             content[i].t = "{" /\ \A j \in 1..(i - 1) : content[j].t # "{"
    ELSE 0
RFindBrace(content) ==
    IF \E i \in 1..Len(content) : content[i].t = "}"
    THEN CHOOSE i \in 1..Len(content) :
             content[i].t = "}" /\ \A j \in (i + 1)..Len(content) : content[j].t # "}"
    ELSE 0

\* re.search(r'"<key>":\s*"([^"]*)"', content): [found, group]; the first
\* pair of that key whose value is a JSON string
ReSearch(key, content) ==
    LET hits == {i \in 1..Len(content) :
                    content[i].t = "pair" /\ content[i].key = key /\ IsStr(content[i].value)}
    IN  IF hits = {} THEN [found |-> FALSE, group |-> <<>>]
        ELSE [found |-> TRUE,
              group |-> content[CHOOSE i \in hits : \A j \in hits : i <= j].value]

\* UnifiedConferenceScraper._parse_json_response: [raised, result]
\* data.get on JSON that is not an object raises AttributeError, which the
\* function does not catch
Scraper_parse_json_response(text) ==
    LET content == StripCodeFence(TextStrip(text))
        first == JsonLoads(content)
        start == FindBrace(content)
        end == RFindBrace(content)
        second == IF start # 0 /\ end # 0
                  THEN JsonLoads(SubSeq(content, start, end))
                  ELSE [ok |-> FALSE, object |-> FALSE, data |-> NoFieldsObject]
        from_object(data) ==
            [submission_deadline |-> _clean_field(Get(data, "Submission Deadline", <<>>)),
             submission_fees |-> _clean_field(Get(data, "Submission Fees", <<>>)),
             registration_fees |-> _clean_field(Get(data, "Registration Fees", <<>>)),
             continent |-> _clean_field(Get(data, "Continent", <<>>))]
        matched(key) ==
            LET match == ReSearch(key, content)
            IN  IF match.found THEN _clean_field(match.group) ELSE <<>>
        from_regex ==
            [submission_deadline |-> matched("Submission Deadline"),
             submission_fees |-> matched("Submission Fees"),
             registration_fees |-> matched("Registration Fees"),
             continent |-> matched("Continent")]
        loaded(parse) ==
            IF parse.object THEN [raised |-> "none", result |-> from_object(parse.data)]
            ELSE [raised |-> "AttributeError", result |-> EmptyResult]
    IN  IF first.ok THEN loaded(first)
        ELSE IF second.ok THEN loaded(second)
        ELSE [raised |-> "none", result |-> from_regex]

\* DeepSeekProcessor._parse_json_response: [raised, result]
\* the module does not import re: the regex fallback raises NameError, which
\* its except clause catches, and the empty result is returned
DeepSeek_parse_json_response(text) ==
    LET content == StripCodeFence(TextStrip(text))
        first == JsonLoads(content)
        start == FindBrace(content)
        end == RFindBrace(content)
        second == IF start # 0 /\ end # 0
                  THEN JsonLoads(SubSeq(content, start, end))
                  ELSE [ok |-> FALSE, object |-> FALSE, data |-> NoFieldsObject]
        from_object(data) ==
            [submission_deadline |-> Get(data, "Submission Deadline", <<>>),
             submission_fee |-> Get(data, "Submission Fee", <<>>),
             registration_fee |-> Get(data, "Registration Fee", <<>>),
             continent |-> Get(data, "Continent", <<>>)]
        loaded(parse) ==
            IF parse.object THEN [raised |-> "none", result |-> from_object(parse.data)]
            ELSE [raised |-> "AttributeError", result |-> DeepSeekEmptyResult]
    IN  IF first.ok THEN loaded(first)
        ELSE IF second.ok THEN loaded(second)
        ELSE [raised |-> "none", result |-> DeepSeekEmptyResult]

\* the exception the try block of one attempt raises, "none" when it does not
RaisedInAttempt(reply, parsed) ==
    CASE reply.kind = "exception" -> "ConnectionError"
      [] reply.kind = "timeout" -> "Timeout"
      [] reply.kind = "json_raises" -> "ValueError"
      [] reply.kind = "no_structure" -> "KeyError"
      [] reply.kind = "200" -> parsed.raised
      [] OTHER -> "none"

\* faulty variant of CaughtByHandlers: only transport errors are caught
CaughtByHandlers_TransportOnly(exception) == exception \in {"Timeout", "ConnectionError"}

\* `except Timeout` and `except Exception`: every exception of the try block
\* is an Exception
CaughtByHandlers(exception) ==
    exception \in {"Timeout", "ConnectionError", "ValueError", "KeyError", "AttributeError"}

\* faulty variant of Attempt: a rate-limited call gives up at once
Attempt_GiveUpOn429(attempt, reply, parsed) ==
    LET exception == RaisedInAttempt(reply, parsed) IN
    IF exception # "none"
    THEN [event |-> "continue",
          wait |-> IF attempt < retry_count - 1 THEN 2 ^ attempt ELSE 0,
          result |-> parsed.result]
    ELSE IF reply.kind \in {"200", "429"}
    THEN [event |-> "return", wait |-> 0, result |-> parsed.result]
    ELSE [event |-> "continue", wait |-> 0, result |-> parsed.result]

\* one pass of the retry loop: [event, wait, result]; event is "return",
\* "continue" or "raise", wait the seconds slept (0 for no sleep)
Attempt(attempt, reply, parsed) ==
    LET exception == RaisedInAttempt(reply, parsed) IN
    IF exception # "none"
    THEN IF CaughtByHandlers(exception)
         THEN [event |-> "continue",
               wait |-> IF attempt < retry_count - 1 THEN 2 ^ attempt ELSE 0,
               result |-> parsed.result]
         ELSE [event |-> "raise", wait |-> 0, result |-> parsed.result]
    ELSE IF reply.kind = "200"
    THEN [event |-> "return", wait |-> 0, result |-> parsed.result]
    ELSE IF reply.kind = "429"
    THEN [event |-> "continue",
          wait |-> IF 2 ^ attempt < 16 THEN 2 ^ attempt ELSE 16,
          result |-> parsed.result]
    ELSE [event |-> "continue", wait |-> 0, result |-> parsed.result]

\* a description one character longer than the part the cache key takes
LongDescription(last) ==
    [i \in 1..(CacheKeyChars + 1) |-> IF i <= CacheKeyChars THEN "x" ELSE last]

\* the conferences extraction is called with; the last two differ in the
\* character after the first CacheKeyChars of the description only
ApiInputs ==
    {[title |-> <<"F","i","n"," ","C","o","n","f",".">>, location |-> <<"N","Y",","," ","U","S","A">>, description |-> <<"d","e","t","a","i","l"," ","t","e","x","t"," ","A">>],
     [title |-> <<"B","a","n","k","i","n","g">>, location |-> <<>>, description |-> LongDescription("A")],
     [title |-> <<"B","a","n","k","i","n","g">>, location |-> <<>>, description |-> LongDescription("B")]}

\* faulty variant of _get_cache_key: the whole description enters the key
_get_cache_key_WholeDescription(title, location, description) ==
    title \o <<"|">> \o location \o <<"|">> \o description

\* DeepSeekProcessor._get_cache_key; the digest is taken as its argument
_get_cache_key(title, location, description) ==
    title \o <<"|">> \o location \o <<"|">>
        \o SubSeq(description, 1, IF Len(description) < CacheKeyChars
                                  THEN Len(description) ELSE CacheKeyChars)

\* no call yet; `ok` tells that the call returned from a status-200 branch,
\* `earlier` lists the calls the processor has finished before this one,
\* `slept` the seconds slept in each pass of the loop (0 for no sleep)
NoCall ==
    [pc |-> "idle", api |-> "none", n |-> 0, input |-> <<>>, attempt |-> 0,
     replies |-> <<>>, waits |-> <<>>, result |-> EmptyResult, from_cache |-> FALSE,
     ok |-> FALSE, earlier |-> <<>>, slept |-> <<>>]

\* the finished calls of a processor, the one in `c` included
Earlier(c) ==
    IF c.pc = "idle" THEN <<>>
    ELSE Append(c.earlier, [api |-> c.api, input |-> c.input, ok |-> c.ok, result |-> c.result])

\* the state of a call after one pass of its retry loop
AfterAttempt(reply, step) ==
    [call EXCEPT !.attempt = @ + 1,
                 !.replies = Append(@, ReplyLabel(reply)),
                 !.waits = IF step.wait > 0 THEN Append(@, step.wait) ELSE @,
                 !.slept = Append(@, step.wait),
                 !.pc = CASE step.event = "return" -> "returned"
                          [] step.event = "raise" -> "raised"
                          [] OTHER -> "attempt",
                 !.result = IF step.event = "return" THEN step.result ELSE @,
                 !.ok = step.event = "return"]

\* call_claude_api is entered
CallClaude ==
    \E input \in ApiInputs :
        /\ call.pc \in {"idle", "returned", "raised"}
        /\ call.n < MaxCalls
        /\ call' = [NoCall EXCEPT !.pc = "attempt", !.api = "claude",
                                  !.n = call.n + 1, !.input = input,
                                  !.earlier = Earlier(call)]
        /\ UNCHANGED cache
    /\ UNCHANGED <<pipeVars, sigVars, parseVars, batchVars, faultVars, cacheVars, scrapeVars>>

\* call_claude_api: one pass of the retry loop
ClaudeAttempt ==
    \E reply \in Replies :
        /\ call.pc = "attempt" /\ call.api = "claude"
        /\ call.attempt < retry_count
        /\ call' = AfterAttempt(reply, Attempt(call.attempt, reply,
                                               Scraper_parse_json_response(reply.content.text)))
        /\ UNCHANGED cache
    /\ UNCHANGED <<pipeVars, sigVars, parseVars, batchVars, faultVars, cacheVars, scrapeVars>>

\* call_claude_api: the loop is exhausted
ClaudeGiveUp ==
    /\ call.pc = "attempt" /\ call.api = "claude"
    /\ call.attempt = retry_count
    /\ call' = [call EXCEPT !.pc = "returned", !.result = EmptyResult]
    /\ UNCHANGED cache
    /\ UNCHANGED <<pipeVars, sigVars, parseVars, batchVars, faultVars, cacheVars, scrapeVars>>

\* call_deepseek_api is entered: a cached result is returned at once
CallDeepSeek ==
    \E input \in ApiInputs :
        LET cache_key == _get_cache_key(input.title, input.location, input.description)
            started == [NoCall EXCEPT !.api = "deepseek", !.n = call.n + 1, !.input = input,
                                      !.result = DeepSeekEmptyResult,
                                      !.earlier = Earlier(call)]
        IN  /\ call.pc \in {"idle", "returned", "raised"}
            /\ call.n < MaxCalls
            /\ call' = IF cache.enable_cache /\ cache_key \in DOMAIN cache.entries
                       THEN [started EXCEPT !.pc = "returned", !.from_cache = TRUE,
                                            !.result = cache.entries[cache_key]]
                       ELSE [started EXCEPT !.pc = "attempt"]
            /\ UNCHANGED cache
    /\ UNCHANGED <<pipeVars, sigVars, parseVars, batchVars, faultVars, cacheVars, scrapeVars>>

\* call_deepseek_api: one pass of the retry loop; a parsed reply is cached
DeepSeekAttempt ==
    \E reply \in Replies :
        LET step == Attempt(call.attempt, reply, DeepSeek_parse_json_response(reply.content.text))
            cache_key == _get_cache_key(call.input.title, call.input.location,
                                        call.input.description)
        IN  /\ call.pc = "attempt" /\ call.api = "deepseek"
            /\ call.attempt < retry_count
            /\ call' = AfterAttempt(reply, step)
            /\ cache' = IF step.event = "return" /\ cache.enable_cache
                        THEN [cache EXCEPT !.entries = (cache_key :> step.result) @@ @]
                        ELSE cache
    /\ UNCHANGED <<pipeVars, sigVars, parseVars, batchVars, faultVars, cacheVars, scrapeVars>>

\* call_deepseek_api: the loop is exhausted
DeepSeekGiveUp ==
    /\ call.pc = "attempt" /\ call.api = "deepseek"
    /\ call.attempt = retry_count
    /\ call' = [call EXCEPT !.pc = "returned", !.result = DeepSeekEmptyResult]
    /\ UNCHANGED cache
    /\ UNCHANGED <<pipeVars, sigVars, parseVars, batchVars, faultVars, cacheVars, scrapeVars>>

ApiNext ==
    \/ CallClaude
    \/ ClaudeAttempt
    \/ ClaudeGiveUp
    \/ CallDeepSeek
    \/ DeepSeekAttempt
    \/ DeepSeekGiveUp

(***************************************************************************)
(* One DeepSeekProcessor: cache, cache file, concurrent calls              *)
(***************************************************************************)
\* number of calls of one processor
MaxTasks == 2

\* the cache file before the processor is made: none, or the pickle of a
\* map with one entry
CacheFiles ==
    {[exists |-> FALSE, entries |-> NoFieldsObject],
     [exists |-> TRUE,
      entries |-> (<<"F","i","n"," ","C","o","n","f",".","|","N","Y",","," ","U","S","A","|",
                     "d","e","t","a","i","l"," ","t","e","x","t"," ","A">>
                   :> [DeepSeekEmptyResult EXCEPT !.continent = <<"A","s","i","a">>])]}

\* a missing file gives the empty map
_load_cache(file) == IF file.exists THEN file.entries ELSE NoFieldsObject

\* the file after _save_cache: nothing is written with caching disabled
_save_cache(enable_cache, entries, file) ==
    IF enable_cache THEN [exists |-> TRUE, entries |-> entries] ELSE file

\* no processor
NoProcessor ==
    [state |-> "none", enable_cache |-> FALSE, cache |-> NoFieldsObject,
     loaded |-> NoFieldsObject, file |-> [exists |-> FALSE, entries |-> NoFieldsObject],
     file_before |-> [exists |-> FALSE, entries |-> NoFieldsObject],
     writes |-> 0, exc |-> FALSE, tasks |-> <<>>]

\* DeepSeekProcessor(enable_cache=...) over a cache file
NewProcessor(enable_cache, file) ==
    [NoProcessor EXCEPT !.state = "new", !.enable_cache = enable_cache,
                        !.cache = IF enable_cache THEN _load_cache(file) ELSE NoFieldsObject,
                        !.loaded = IF enable_cache THEN _load_cache(file) ELSE NoFieldsObject,
                        !.file = file, !.file_before = file]

\* faulty variant of StoreInCache: the outcome of every pass is cached
StoreInCache_AnyOutcome(entries, enable_cache, cache_key, step) ==
    IF enable_cache THEN (cache_key :> step.result) @@ entries ELSE entries

\* `if self.enable_cache and parsed_result: self.cache[cache_key] = ...` in
\* the status-200 branch; a ConferenceResult is always true
StoreInCache(entries, enable_cache, cache_key, step) ==
    IF step.event = "return" /\ enable_cache
    THEN (cache_key :> step.result) @@ entries
    ELSE entries

\* __aenter__
ProcEnter ==
    /\ proc.state = "new"
    /\ proc' = [proc EXCEPT !.state = "open"]
    /\ UNCHANGED <<sigVars, pipeVars, apiVars, parseVars, batchVars, faultVars, scrapeVars>>

\* call_deepseek_api is entered by a task: a cached result is returned at
\* once, without a request
ProcCall ==
    /\ proc.state = "open"
    /\ Len(proc.tasks) < MaxTasks
    /\ \E input \in ApiInputs :
           LET cache_key == _get_cache_key(input.title, input.location, input.description)
               hit == proc.enable_cache /\ cache_key \in DOMAIN proc.cache
               task == [key |-> cache_key, pc |-> IF hit THEN "returned" ELSE "attempt",
                        attempt |-> 0, requests |-> 0, from_cache |-> hit, ok |-> FALSE,
                        result |-> IF hit THEN proc.cache[cache_key] ELSE DeepSeekEmptyResult]
           IN  proc' = [proc EXCEPT !.tasks = Append(@, task)]
    /\ UNCHANGED <<sigVars, pipeVars, apiVars, parseVars, batchVars, faultVars, scrapeVars>>

\* call_deepseek_api: one pass of the retry loop of one task
ProcAttempt ==
    /\ proc.state = "open"
    /\ \E i \in 1..Len(proc.tasks) : \E reply \in Replies :
           LET task == proc.tasks[i]
               step == Attempt(task.attempt, reply,
                               DeepSeek_parse_json_response(reply.content.text))
           IN  /\ task.pc = "attempt"
               /\ task.attempt < retry_count
               /\ proc' = [proc EXCEPT
                               !.tasks[i] = [task EXCEPT
                                   !.attempt = @ + 1,
                                   !.requests = @ + 1,
                                   !.pc = IF step.event = "return" THEN "returned" ELSE "attempt",
                                   !.ok = step.event = "return",
                                   !.result = IF step.event = "return" THEN step.result ELSE @],
                               !.cache = StoreInCache(@, proc.enable_cache, task.key, step)]
    /\ UNCHANGED <<sigVars, pipeVars, apiVars, parseVars, batchVars, faultVars, scrapeVars>>

\* call_deepseek_api: the loop of one task is exhausted
ProcGiveUp ==
    /\ proc.state = "open"
    /\ \E i \in 1..Len(proc.tasks) :
           /\ proc.tasks[i].pc = "attempt"
           /\ proc.tasks[i].attempt = retry_count
           /\ proc' = [proc EXCEPT !.tasks[i].pc = "returned",
                                   !.tasks[i].result = DeepSeekEmptyResult]
    /\ UNCHANGED <<sigVars, pipeVars, apiVars, parseVars, batchVars, faultVars, scrapeVars>>

\* __aexit__: the block of `async with` has ended, normally or with an
\* exception; the session is closed and _save_cache is called
ProcExit ==
    /\ proc.state = "open"
    /\ \A i \in 1..Len(proc.tasks) : proc.tasks[i].pc = "returned"
    /\ \E exc \in BOOLEAN :
           proc' = [proc EXCEPT !.state = "closed", !.exc = exc,
                                !.file = _save_cache(proc.enable_cache, proc.cache, proc.file),
                                !.writes = IF proc.enable_cache THEN @ + 1 ELSE @]
    /\ UNCHANGED <<sigVars, pipeVars, apiVars, parseVars, batchVars, faultVars, scrapeVars>>

CacheNext ==
    \/ ProcEnter
    \/ ProcCall
    \/ ProcAttempt
    \/ ProcGiveUp
    \/ ProcExit

(***************************************************************************)
(* Reply texts and their parsing (_parse_json_response on bounded texts)   *)
(***************************************************************************)
\* number of wrappings (a code fence, a text before, a text after) a answer gets
MaxWraps == 2

\* the objects a service replies with
Payloads == {ClaudeObject, DeepSeekObject, PartialObject, TypedObject}

\* explanatory text around an object, without and with braces of its own
ExplanatoryTexts ==
    {<<Tok("word")>>, <<Tok("word"), Tok("{"), Tok("word"), Tok("}")>>}

\* a answer that is the object alone
BareReply(payload, pretty) ==
    [payload |-> payload, pretty |-> pretty, fence |-> "none",
     nl_open |-> FALSE, nl_close |-> FALSE, before |-> <<>>, after |-> <<>>, wraps |-> 0]

\* the text of the object of a answer, and the text of the whole answer
PayloadText(r) == ObjectText(r.payload, r.pretty)
ReplyText(r) ==
    LET opening == IF r.fence = "none" THEN <<>>
                   ELSE <<Tok("fence")>>
                            \o (IF r.fence = "fence_json" THEN <<Tok("json")>> ELSE <<>>)
                            \o (IF r.nl_open THEN <<Tok("nl")>> ELSE <<>>)
        closing == IF r.fence = "none" THEN <<>>
                   ELSE (IF r.nl_close THEN <<Tok("nl")>> ELSE <<>>) \o <<Tok("fence")>>
    IN  r.before \o opening \o PayloadText(r) \o closing \o r.after

\* both parsers applied to the object alone and to the whole answer
ParseBoth(r) ==
    [scraper |-> [bare |-> Scraper_parse_json_response(PayloadText(r)),
                  text |-> Scraper_parse_json_response(ReplyText(r))],
     deepseek |-> [bare |-> DeepSeek_parse_json_response(PayloadText(r)),
                   text |-> DeepSeek_parse_json_response(ReplyText(r))]]

\* the service wraps the object in code-fence markers
WrapInCodeFence ==
    /\ answer.fence = "none" /\ answer.wraps < MaxWraps
    /\ \E marker \in {"fence", "fence_json"}, nl_open \in BOOLEAN, nl_close \in BOOLEAN :
           LET r == [answer EXCEPT !.fence = marker, !.nl_open = nl_open,
                                  !.nl_close = nl_close, !.wraps = @ + 1]
           IN  answer' = r /\ parses' = ParseBoth(r)
    /\ UNCHANGED <<sigVars, pipeVars, apiVars, batchVars, faultVars, cacheVars, scrapeVars>>

\* the service writes explanatory text before the object
AddTextBefore ==
    /\ answer.before = <<>> /\ answer.wraps < MaxWraps
    /\ \E words \in ExplanatoryTexts, sep \in {"sp", "nl"} :
           LET r == [answer EXCEPT !.before = words \o <<Tok(sep)>>, !.wraps = @ + 1]
           IN  answer' = r /\ parses' = ParseBoth(r)
    /\ UNCHANGED <<sigVars, pipeVars, apiVars, batchVars, faultVars, cacheVars, scrapeVars>>

\* the service writes explanatory text after the object
AddTextAfter ==
    /\ answer.after = <<>> /\ answer.wraps < MaxWraps
    /\ \E words \in ExplanatoryTexts, sep \in {"sp", "nl"} :
           LET r == [answer EXCEPT !.after = <<Tok(sep)>> \o words, !.wraps = @ + 1]
           IN  answer' = r /\ parses' = ParseBoth(r)
    /\ UNCHANGED <<sigVars, pipeVars, apiVars, batchVars, faultVars, cacheVars, scrapeVars>>

ParseNext ==
    \/ WrapInCodeFence
    \/ AddTextBefore
    \/ AddTextAfter

(***************************************************************************)
(* Batches of extraction calls (process_conferences_batch)                 *)
(***************************************************************************)
\* rows of one batch
MaxBatch == 3
\* rows per chunk; stands for chunk_size (10 in src/src/scraper.py, 20 in
\* src/deepseek.py), scaled so that a batch of MaxBatch rows has two chunks
ChunkSize == 2
\* largest configured max_concurrent_api
MaxConcurrent == 2

\* the rows a batch is taken from
BatchRows == <<EntryA, EntryC, EntryB, EntryNoDates, EntryShort>>

\* a task of the batch: created, waiting (for the semaphore), calling
\* (inside `async with semaphore`), returned (its tuple), failed (an
\* exception is its outcome); caught tells that the tuple comes from the
\* except clause of process_single_conference, called that the task has
\* entered its extraction call
NewTask ==
    [state |-> "created", attempt |-> 0, result |-> EmptyResult, caught |-> FALSE,
     called |-> FALSE]

IdleBatch ==
    [pc |-> "idle", key |-> FALSE, max_concurrent |-> 1, input |-> <<>>, i |-> 0,
     permits |-> 0, tasks |-> <<>>, completed |-> <<>>, result_df |-> <<>>,
     pauses |-> 0]

\* process_conferences_batch is entered with conferences_df
NewBatch(input, max_concurrent, key) ==
    [IdleBatch EXCEPT !.pc = "start", !.key = key, !.max_concurrent = max_concurrent,
                      !.input = input]

\* faulty variant of ChunkOf: every task is gathered at once
ChunkOf_All(b) == 1..Len(b.input)

\* tasks[i:i + chunk_size], as positions (1-based)
ChunkOf(b) == {k \in 1..Len(b.input) : b.i < k /\ k <= b.i + ChunkSize}

\* asyncio.gather schedules the tasks of the chunk
Gathered(tasks, chunk) ==
    [k \in 1..Len(tasks) |-> IF k \in chunk THEN [tasks[k] EXCEPT !.state = "waiting"]
                                            ELSE tasks[k]]

\* conferences_df.copy() with the four result columns set to ''
WithEmptyColumns(input) == [k \in 1..Len(input) |-> ProcessedRow(input[k], EmptyResult)]

\* faulty variant of CanAcquire: no gate
CanAcquire_Always(b) == TRUE

\* `async with semaphore` is entered when the semaphore's value is positive
CanAcquire(b) == b.permits > 0

\* faulty variant of Released: a task that ends with an exception keeps
\* its permit
Released_OnSuccessOnly(permits, state, outcome) ==
    IF state = "calling" /\ outcome = "returned" THEN permits + 1 ELSE permits

\* the semaphore's value after a task in `state` has ended with `outcome`:
\* leaving `async with semaphore` releases, on return and on exception
Released(permits, state, outcome) ==
    IF state = "calling" THEN permits + 1 ELSE permits

\* the tasks that are inside an extraction call
InFlight(b) == {k \in 1..Len(b.tasks) : b.tasks[k].state = "calling"}

\* result_df.at[index, column] = value, for the four result columns
SetResult(row, result) ==
    [column \in DOMAIN row |->
        CASE column = "Submission Deadline" -> result.submission_deadline
          [] column = "Submission Fees" -> result.submission_fees
          [] column = "Registration Fees" -> result.registration_fees
          [] column = "Continent" -> result.continent
          [] OTHER -> row[column]]

\* faulty variant of WriteResults: the results of a chunk are written to
\* its rows in the order the tasks completed
WriteResults_ByCompletion(result_df, tasks, chunk, completed) ==
    LET done == SelectSeq(completed, LAMBDA k : k \in chunk)
        first == CHOOSE k \in chunk : \A j \in chunk : k <= j
    IN  [k \in 1..Len(result_df) |->
            IF k \in chunk /\ k - first + 1 <= Len(done)
            THEN SetResult(result_df[k], tasks[done[k - first + 1]].result)
            ELSE result_df[k]]

\* the loop over chunk_results: the result of every task that returned a
\* tuple is written to the row of its index
WriteResults(result_df, tasks, chunk, completed) ==
    [k \in 1..Len(result_df) |->
        IF k \in chunk /\ tasks[k].state = "returned"
        THEN SetResult(result_df[k], tasks[k].result)
        ELSE result_df[k]]

\* an empty frame is returned as it is
BatchEmpty ==
    /\ batch.pc = "start" /\ Len(batch.input) = 0
    /\ batch' = [batch EXCEPT !.pc = "done", !.result_df = batch.input]
    /\ UNCHANGED <<sigVars, pipeVars, apiVars, parseVars, faultVars, cacheVars, scrapeVars>>

\* no API key is configured: the frame is returned with empty result columns
BatchNoKey ==
    /\ batch.pc = "start" /\ Len(batch.input) > 0 /\ ~batch.key
    /\ batch' = [batch EXCEPT !.pc = "done", !.result_df = WithEmptyColumns(batch.input)]
    /\ UNCHANGED <<sigVars, pipeVars, apiVars, parseVars, faultVars, cacheVars, scrapeVars>>

\* the result frame, the semaphore and the tasks are created; the first
\* chunk is gathered
BatchBegin ==
    /\ batch.pc = "start" /\ Len(batch.input) > 0 /\ batch.key
    /\ LET b == [batch EXCEPT !.pc = "gather", !.i = 0,
                              !.permits = batch.max_concurrent,
                              !.result_df = WithEmptyColumns(batch.input),
                              !.tasks = [k \in 1..Len(batch.input) |-> NewTask]]
       IN  batch' = [b EXCEPT !.tasks = Gathered(b.tasks, ChunkOf(b))]
    /\ UNCHANGED <<sigVars, pipeVars, apiVars, parseVars, faultVars, cacheVars, scrapeVars>>

\* a task passes the semaphore and enters call_claude_api
Acquire ==
    /\ batch.pc = "gather"
    /\ \E k \in 1..Len(batch.tasks) :
           /\ batch.tasks[k].state = "waiting"
           /\ CanAcquire(batch)
           /\ batch' = [batch EXCEPT !.tasks[k].state = "calling",
                                     !.tasks[k].called = TRUE,
                                     !.permits = @ - 1]
    /\ UNCHANGED <<sigVars, pipeVars, apiVars, parseVars, faultVars, cacheVars, scrapeVars>>

\* an attempt of the call fails and the call sleeps before the next one
Backoff ==
    /\ batch.pc = "gather"
    /\ \E k \in 1..Len(batch.tasks) :
           /\ batch.tasks[k].state = "calling"
           /\ batch.tasks[k].attempt < retry_count - 1
           /\ batch' = [batch EXCEPT !.tasks[k].attempt = @ + 1]
    /\ UNCHANGED <<sigVars, pipeVars, apiVars, parseVars, faultVars, cacheVars, scrapeVars>>

\* the call returns, with fields or with the empty result
CallReturns ==
    /\ batch.pc = "gather"
    /\ \E k \in 1..Len(batch.tasks), result \in ExtractionResults :
           /\ batch.tasks[k].state = "calling"
           /\ batch' = [batch EXCEPT !.tasks[k].state = "returned",
                                     !.tasks[k].result = result,
                                     !.permits = Released(@, "calling", "returned"),
                                     !.completed = Append(@, k)]
    /\ UNCHANGED <<sigVars, pipeVars, apiVars, parseVars, faultVars, cacheVars, scrapeVars>>

\* an exception is raised inside the try block of the task: the task
\* returns the empty result
CallRaises ==
    /\ batch.pc = "gather"
    /\ \E k \in 1..Len(batch.tasks) :
           /\ batch.tasks[k].state = "calling"
           /\ batch' = [batch EXCEPT !.tasks[k].state = "returned",
                                     !.tasks[k].result = EmptyResult,
                                     !.tasks[k].caught = TRUE,
                                     !.permits = Released(@, "calling", "returned"),
                                     !.completed = Append(@, k)]
    /\ UNCHANGED <<sigVars, pipeVars, apiVars, parseVars, faultVars, cacheVars, scrapeVars>>

\* a task ends with an exception (it is cancelled while it waits for the
\* semaphore or inside the call): gather hands the exception on as its
\* outcome, the semaphore is released by `async with`
TaskFails ==
    /\ batch.pc = "gather"
    /\ \E k \in 1..Len(batch.tasks) :
           /\ batch.tasks[k].state \in {"waiting", "calling"}
           /\ batch' = [batch EXCEPT !.tasks[k].state = "failed",
                                     !.permits = Released(@, batch.tasks[k].state, "failed"),
                                     !.completed = Append(@, k)]
    /\ UNCHANGED <<sigVars, pipeVars, apiVars, parseVars, faultVars, cacheVars, scrapeVars>>

\* gather has the outcome of every task of the chunk: the results are
\* written to the frame, and after a pause (asyncio.sleep) the next chunk is
\* gathered, or the frame is returned
ChunkDone ==
    /\ batch.pc = "gather"
    /\ \A k \in ChunkOf(batch) : batch.tasks[k].state \in {"returned", "failed"}
    /\ LET written == WriteResults(batch.result_df, batch.tasks, ChunkOf(batch), batch.completed)
           more == batch.i + ChunkSize < Len(batch.tasks)
           b == [batch EXCEPT !.result_df = written,
                              !.i = IF more THEN @ + ChunkSize ELSE @,
                              !.pauses = IF more THEN @ + 1 ELSE @,
                              !.pc = IF more THEN "gather" ELSE "done"]
       IN  batch' = IF more THEN [b EXCEPT !.tasks = Gathered(b.tasks, ChunkOf(b))] ELSE b
    /\ UNCHANGED <<sigVars, pipeVars, apiVars, parseVars, faultVars, cacheVars, scrapeVars>>

BatchNext ==
    \/ BatchEmpty
    \/ BatchNoKey
    \/ BatchBegin
    \/ Acquire
    \/ Backoff
    \/ CallReturns
    \/ CallRaises
    \/ TaskFails
    \/ ChunkDone

\* before the first run: no store, no export
Init ==
    /\ ssrnFile = NoFile
    /\ confFile = NoFile
    /\ csvFile = NoExport
    /\ run = IdleRun
    /\ prev = Summary(IdleRun)
    /\ runs = 0
    /\ confA = ExampleA
    /\ confB = ExampleA
    /\ altered = FALSE
    /\ edits = 0
    /\ scraperSig = <<<<>>, <<>>>>
    /\ pipelineSig = <<<<>>, <<>>>>
    /\ call = NoCall
    /\ cache = [enable_cache |-> TRUE, entries |-> NoFieldsObject]
    /\ answer = BareReply(<<>>, FALSE)
    /\ parses = ParseBoth(BareReply(<<>>, FALSE))
    /\ batch = IdleBatch
    /\ unreadable = {}
    /\ proc = NoProcessor
    /\ cand = Idle
    /\ page = Idle
    /\ fetch = Idle
    /\ crawl = Idle

\* pipeline runs
Spec == Init /\ [][PipeNext]_vars

(***************************************************************************)
(* The list nodes of one listing page (parse_conference_list)              *)
(***************************************************************************)
\* visible texts of list nodes, get_text(strip=True)
TextStrict ==
    <<"F","i","n","a","n","c","e"," ","C","o","n","f","e","r","e","n","c","e"," ","C","o","n","f","e","r","e","n","c","e"," ","D","a","t","e","s",":"," ","1","-","2"," ","M","a","y"," ","2","0","2","6"," ","L","o","c","a","t","i","o","n",":"," ","N","Y">>
TextWorkshop ==
    <<"W","o","r","k","s","h","o","p"," ","o","n"," ","C","r","e","d","i","t",","," ","C","a","l","l"," ","f","o","r"," ","p","a","p","e","r","s"," ","2","0","2","6">>
TextShort == <<"A","b","o","u","t"," ","S","S","R","N">>
TextAbstract ==
    <<"S","u","b","m","i","t"," ","y","o","u","r"," ","a","b","s","t","r","a","c","t"," ","b","y"," ","t","h","e"," ","d","e","a","d","l","i","n","e">>

\* li.find('a', href=True) found nothing
NoLink == [href |-> None]
Link(href) == [href |-> href]

\* the <li> nodes a page may hold: [text, link]
ListNodes ==
    {[text |-> TextStrict, link |-> Link(<<"/","c","o","n","f","/","1">>)],
     [text |-> TextStrict, link |-> Link(<<"/","c","o","n","f","/","9">>)],
     [text |-> TextStrict, link |-> NoLink],
     [text |-> TextWorkshop, link |-> Link(<<"/","c","o","n","f","/","2">>)],
     [text |-> TextShort, link |-> Link(<<"/","a","b","o","u","t">>)],
     [text |-> TextAbstract, link |-> Link(<<"h","t","t","p","s",":","/","/","x",".","o","r","g","/","5">>)],
     [text |-> TextAbstract, link |-> Link(<<"/","c","o","n","f","/","5">>)]}

\* number of <li> nodes of a page
MaxNodes == 3

\* any(word in text for word in words)
AnyIn(words, text) == \E word \in words : Contains(text, word)

\* the five lambdas of conference_patterns, by position
PatternMatches(k, text, link) ==
    CASE k = 1 ->
           /\ link # NoLink /\ Len(text) > 50
           /\ AnyIn({<<"C","o","n","f","e","r","e","n","c","e"," ","D","a","t","e">>, <<"C","o","n","f","e","r","e","n","c","e"," ","D","a","t","e","s">>}, text)
           /\ AnyIn({<<"L","o","c","a","t","i","o","n",":">>, <<"P","o","s","t","e","d",":">>}, text)
      [] k = 2 ->
           /\ link # NoLink /\ Len(text) > 40
           /\ AnyIn({<<"C","o","n","f","e","r","e","n","c","e"," ","D","a","t","e">>, <<"C","o","n","f","e","r","e","n","c","e"," ","D","a","t","e","s">>, <<"D","a","t","e",":">>, <<"D","a","t","e","s",":">>}, text)
           /\ AnyIn({<<"L","o","c","a","t","i","o","n",":">>, <<"L","o","c","a","t","i","o","n">>, <<"P","o","s","t","e","d",":">>, <<"V","e","n","u","e",":">>}, text)
      [] k = 3 ->
           /\ link # NoLink /\ Len(text) > 30
           /\ AnyIn({<<"c","o","n","f","e","r","e","n","c","e">>, <<"s","y","m","p","o","s","i","u","m">>, <<"w","o","r","k","s","h","o","p">>, <<"s","u","m","m","i","t">>, <<"m","e","e","t","i","n","g">>}, StrLower(text))
           /\ AnyIn({<<"L","o","c","a","t","i","o","n">>, <<"D","a","t","e">>, <<"P","o","s","t","e","d">>, <<"C","a","l","l"," ","f","o","r">>, <<"D","e","a","d","l","i","n","e">>}, text)
      [] k = 4 ->
           /\ link # NoLink /\ Len(text) > 30
           /\ AnyIn({<<"f","i","n","a","n","c","e">>, <<"e","c","o","n","o","m","i","c">>, <<"b","u","s","i","n","e","s","s">>, <<"b","a","n","k","i","n","g">>, <<"a","c","c","o","u","n","t","i","n","g">>, <<"m","a","n","a","g","e","m","e","n","t">>}, StrLower(text))
           /\ AnyIn({<<"2","0","2","4">>, <<"2","0","2","5">>, <<"2","0","2","6">>, <<"D","a","t","e">>, <<"P","o","s","t","e","d">>}, text)
      [] k = 5 ->
           /\ link # NoLink /\ Len(text) > 25
           /\ AnyIn({<<"h","t","t","p">>, <<"s","s","r","n",".","c","o","m">>}, link.href)
           /\ AnyIn({<<"c","a","l","l"," ","f","o","r"," ","p","a","p","e","r","s">>, <<"s","u","b","m","i","s","s","i","o","n">>, <<"c","o","n","f","e","r","e","n","c","e">>, <<"a","b","s","t","r","a","c","t">>, <<"d","e","a","d","l","i","n","e">>}, StrLower(text))
      [] OTHER -> FALSE

NumPatterns == 5

\* the loop over the patterns from pattern k on: the patterns for which
\* the node is appended (the first that matches, then break)
RECURSIVE TryPatterns(_, _, _)
TryPatterns(k, text, link) ==
    IF k > NumPatterns THEN <<>>
    ELSE IF PatternMatches(k, text, link) THEN <<k>>
    ELSE TryPatterns(k + 1, text, link)

\* the loop over list_items from position i on: [li, pattern] for every
\* append to conference_elements (li is the position of the node)
RECURSIVE MatchItems(_, _)
MatchItems(list_items, i) ==
    IF i > Len(list_items) THEN <<>>
    ELSE LET matched == TryPatterns(1, list_items[i].text, list_items[i].link)
         IN  [n \in 1..Len(matched) |-> [li |-> i, pattern |-> matched[n]]]
                 \o MatchItems(list_items, i + 1)

\* faulty variant of UniqueElements: nothing is removed
UniqueElements_All(list_items, conference_elements, seen) ==
    [n \in 1..Len(conference_elements) |-> conference_elements[n].li]

\* the loop that removes duplicates: the positions of the nodes kept
RECURSIVE UniqueElements(_, _, _)
UniqueElements(list_items, conference_elements, seen) ==
    IF conference_elements = <<>> THEN <<>>
    ELSE LET element == Head(conference_elements).li
             element_text == list_items[element].text
         IN  IF element_text \notin seen
             THEN <<element>> \o UniqueElements(list_items, Tail(conference_elements),
                                                seen \cup {element_text})
             ELSE UniqueElements(list_items, Tail(conference_elements), seen)

\* a page whose <li> nodes are list_items, in document order
NewPage(list_items) ==
    [pc |-> "fetched", list_items |-> list_items,
     conference_elements |-> <<>>, unique_elements |-> <<>>]

\* parse_conference_list
ParsePage ==
    /\ page.pc = "fetched"
    /\ LET conference_elements == MatchItems(page.list_items, 1)
       IN  page' = [page EXCEPT !.pc = "parsed",
                                !.conference_elements = conference_elements,
                                !.unique_elements =
                                    UniqueElements(page.list_items, conference_elements, {})]
    /\ UNCHANGED <<cand, fetch, crawl>>
    /\ UNCHANGED <<sigVars, pipeVars, apiVars, parseVars, batchVars, faultVars, cacheVars>>

\* a listing page has been fetched: up to MaxNodes list nodes
PageInit ==
    /\ page \in {NewPage(list_items) :
                     list_items \in UNION {[1..n -> ListNodes] : n \in 0..MaxNodes}}
    /\ cand = Idle
    /\ fetch = Idle
    /\ crawl = Idle
    /\ ssrnFile = NoFile
    /\ confFile = NoFile
    /\ csvFile = NoExport
    /\ run = IdleRun
    /\ prev = Summary(IdleRun)
    /\ runs = 0
    /\ confA = ExampleA
    /\ confB = ExampleA
    /\ altered = FALSE
    /\ edits = 0
    /\ scraperSig = <<<<>>, <<>>>>
    /\ pipelineSig = <<<<>>, <<>>>>
    /\ call = NoCall
    /\ cache = [enable_cache |-> TRUE, entries |-> NoFieldsObject]
    /\ answer = BareReply(<<>>, FALSE)
    /\ parses = ParseBoth(BareReply(<<>>, FALSE))
    /\ batch = IdleBatch
    /\ unreadable = {}
    /\ proc = NoProcessor

\* the parsing of one listing page
PageSpec == PageInit /\ [][ParsePage]_vars

(***************************************************************************)
(* One page fetch (fetch_page of both scrapers)                            *)
(***************************************************************************)
\* retry_count of the earlier scraper's fetch_page: its default, and what
\* scrape_conferences passes for the main page
FetchRetryCounts == {3, 5}

\* what one strategy meets. A request of the async session: status 200
\* with a body, status 200 with an empty body, status 403, another status,
\* a timeout, another exception. The headless browser: a page source, or
\* None. The plain session: status 200 with or without a body, or None.
AsyncOutcomes == {"content", "empty", "403", "500", "timeout", "raises"}
SeleniumOutcomes == {"content", "None"}
SyncOutcomes == {"content", "empty", "None"}

\* the strategy returned a text (status 200, or a page source)
ReturnsText(outcome) == outcome \in {"content", "empty"}

\* fetch_page has been entered; `tried` lists the strategies started so
\* far and `outcomes` what each met
NewFetch(impl, enable_selenium, retries) ==
    [impl |-> impl, enable_selenium |-> enable_selenium, retry_count |-> retries,
     pc |-> IF impl = "earlier" THEN "async"
            ELSE IF enable_selenium THEN "selenium" ELSE "sync",
     attempt |-> 0, tried |-> <<>>, outcomes |-> <<>>, result |-> "None"]

\* faulty variant of FetchStep: after the headless browser has failed
\* fetch_page gives up
FetchStep_NoFallback(f, outcome) ==
    LET g == [f EXCEPT !.tried = Append(@, f.pc), !.outcomes = Append(@, outcome)]
    IN  IF f.pc = "async"
        THEN IF ReturnsText(outcome)
             THEN [g EXCEPT !.pc = "done", !.result = outcome]
             ELSE [g EXCEPT !.attempt = @ + 1,
                            !.pc = IF f.attempt + 1 < f.retry_count THEN "async"
                                   ELSE "selenium"]
        ELSE IF f.pc = "selenium"
        THEN [g EXCEPT !.pc = "done",
                       !.result = IF outcome = "content" THEN outcome ELSE "None"]
        ELSE [g EXCEPT !.pc = "done", !.result = outcome]

\* the strategy at f.pc runs and meets `outcome`
FetchStep(f, outcome) ==
    LET g == [f EXCEPT !.tried = Append(@, f.pc), !.outcomes = Append(@, outcome)]
    IN  IF f.pc = "async"
        THEN IF ReturnsText(outcome)
             THEN [g EXCEPT !.pc = "done", !.result = outcome]
             ELSE [g EXCEPT !.attempt = @ + 1,
                            !.pc = IF f.attempt + 1 < f.retry_count THEN "async"
                                   ELSE "selenium"]
        ELSE IF f.pc = "selenium"
        THEN IF outcome = "content"
             THEN [g EXCEPT !.pc = "done", !.result = outcome]
             ELSE [g EXCEPT !.pc = "sync"]
        ELSE [g EXCEPT !.pc = "done", !.result = outcome]

\* one pass of the earlier scraper's loop over its async session
TryAsync ==
    /\ fetch.pc = "async"
    /\ \E outcome \in AsyncOutcomes : fetch' = FetchStep(fetch, outcome)
    /\ UNCHANGED <<cand, page, crawl>>
    /\ UNCHANGED <<sigVars, pipeVars, apiVars, parseVars, batchVars, faultVars, cacheVars>>

\* fetch_page_selenium
TrySelenium ==
    /\ fetch.pc = "selenium"
    /\ \E outcome \in SeleniumOutcomes : fetch' = FetchStep(fetch, outcome)
    /\ UNCHANGED <<cand, page, crawl>>
    /\ UNCHANGED <<sigVars, pipeVars, apiVars, parseVars, batchVars, faultVars, cacheVars>>

\* fetch_page_sync
TrySync ==
    /\ fetch.pc = "sync"
    /\ \E outcome \in SyncOutcomes : fetch' = FetchStep(fetch, outcome)
    /\ UNCHANGED <<cand, page, crawl>>
    /\ UNCHANGED <<sigVars, pipeVars, apiVars, parseVars, batchVars, faultVars, cacheVars>>

FetchNext ==
    \/ TryAsync
    \/ TrySelenium
    \/ TrySync

\* fetch_page has been called, by either scraper
FetchInit ==
    /\ fetch \in {NewFetch("unified", enable_selenium, 2) : enable_selenium \in BOOLEAN}
                 \cup {NewFetch("earlier", TRUE, retries) : retries \in FetchRetryCounts}
    /\ cand = Idle
    /\ page = Idle
    /\ crawl = Idle
    /\ ssrnFile = NoFile
    /\ confFile = NoFile
    /\ csvFile = NoExport
    /\ run = IdleRun
    /\ prev = Summary(IdleRun)
    /\ runs = 0
    /\ confA = ExampleA
    /\ confB = ExampleA
    /\ altered = FALSE
    /\ edits = 0
    /\ scraperSig = <<<<>>, <<>>>>
    /\ pipelineSig = <<<<>>, <<>>>>
    /\ call = NoCall
    /\ cache = [enable_cache |-> TRUE, entries |-> NoFieldsObject]
    /\ answer = BareReply(<<>>, FALSE)
    /\ parses = ParseBoth(BareReply(<<>>, FALSE))
    /\ batch = IdleBatch
    /\ unreadable = {}
    /\ proc = NoProcessor

\* one page fetch
FetchSpec == FetchInit /\ [][FetchNext]_vars

(***************************************************************************)
(* Discovery of the listing pages (get_all_conference_pages) and the       *)
(* parsing of the pages in scrape_conferences                              *)
(***************************************************************************)
BaseUrl == <<"h","t","t","p","s",":","/","/","w","w","w",".","s","s","r","n",".","c","o","m">>
\* conference_urls
MainUrl ==
    <<"h","t","t","p","s",":","/","/","w","w","w",".","s","s","r","n",".","c","o","m","/","i","n","d","e","x",".","c","f","m","/","e","n","/","j","a","n","d","a","/","p","r","o","f","e","s","s","i","o","n","a","l","-","a","n","n","o","u","n","c","e","m","e","n","t","s","/","?","a","n","n","s","N","e","t","=","2","0","3","#","A","n","n","T","y","p","e","_","1">>
\* href values of pagination links
HrefPage2 == <<"/","j","a","n","d","a","/","p","r","o","f","e","s","s","i","o","n","a","l","-","a","n","n","o","u","n","c","e","m","e","n","t","s","/","?","p","a","g","e","=","2">>
HrefPage2Absolute ==
    <<"h","t","t","p","s",":","/","/","w","w","w",".","s","s","r","n",".","c","o","m","/","j","a","n","d","a","/","p","r","o","f","e","s","s","i","o","n","a","l","-","a","n","n","o","u","n","c","e","m","e","n","t","s","/","?","p","a","g","e","=","2">>
HrefStart20 == <<"/","j","a","n","d","a","/","a","n","n","o","u","n","c","e","m","e","n","t","/","?","s","t","a","r","t","=","2","0">>
HrefHelp == <<"/","h","e","l","p","/","?","p","a","g","e","=","2">>

\* link.startswith('http')
StartsWithHttp(link) == Len(link) >= 4 /\ SubSeq(link, 1, 4) = <<"h","t","t","p">>

\* urljoin(base_url, link) for a link that begins with "/"
urljoin(base, link) == base \o link

FullUrl(link) == IF StartsWithHttp(link) THEN link ELSE urljoin(BaseUrl, link)

\* the pagination links a page may hold
LinkSets ==
    {{}, {HrefPage2}, {HrefPage2, HrefPage2Absolute}, {HrefStart20, MainUrl},
     {HrefPage2, HrefStart20}, {HrefHelp, HrefStart20}, {MainUrl}}

\* the listing pages of the site
SiteUrls == {MainUrl, FullUrl(HrefPage2), FullUrl(HrefStart20)}

\* the site: the pagination links of each listing page
SiteMaps == [SiteUrls -> LinkSets]

\* cap on the length of the URL list
MaxUrls == 5

\* the orders in which a set may be iterated
Orders(set) ==
    {q \in [1..Cardinality(set) -> set] : {q[n] : n \in 1..Cardinality(set)} = set}

\* faulty variant of AddPagination: a URL is added whether or not the
\* list holds it
RECURSIVE AddPagination_Again(_, _)
AddPagination_Again(urls, links) ==
    IF links = <<>> THEN urls
    ELSE LET full_url == FullUrl(Head(links))
         IN  IF \/ Contains(full_url, <<"p","r","o","f","e","s","s","i","o","n","a","l","-","a","n","n","o","u","n","c","e","m","e","n","t","s">>)
                \/ Contains(full_url, <<"a","n","n","o","u","n","c","e","m","e","n","t">>)
             THEN AddPagination_Again(Append(urls, full_url), Tail(links))
             ELSE AddPagination_Again(urls, Tail(links))

\* the loop over pagination_links, in the order `links`
RECURSIVE AddPagination(_, _)
AddPagination(urls, links) ==
    IF links = <<>> THEN urls
    ELSE LET full_url == FullUrl(Head(links))
         IN  IF /\ \/ Contains(full_url, <<"p","r","o","f","e","s","s","i","o","n","a","l","-","a","n","n","o","u","n","c","e","m","e","n","t","s">>)
                   \/ Contains(full_url, <<"a","n","n","o","u","n","c","e","m","e","n","t">>)
                /\ \A n \in 1..Len(urls) : urls[n] # full_url
             THEN AddPagination(Append(urls, full_url), Tail(links))
             ELSE AddPagination(urls, Tail(links))

\* scrape_conferences has called get_all_conference_pages over a site
NewCrawl(sitemap) ==
    [pc |-> "discover", sitemap |-> sitemap, urls |-> <<MainUrl>>, i |-> 0,
     page_contents |-> <<>>, fetches |-> <<>>, parsed |-> <<>>, remaining |-> <<>>]

\* one pass of `for i, url in enumerate(urls)`: the page is fetched; when
\* that succeeds its pagination links are added to the list under iteration
DiscoverPage ==
    /\ crawl.pc = "discover"
    /\ crawl.i < Len(crawl.urls)
    /\ Len(crawl.urls) <= MaxUrls
    /\ LET url == crawl.urls[crawl.i + 1]
           links == IF url \in SiteUrls THEN crawl.sitemap[url] ELSE {}
       IN  \E html_content \in BOOLEAN : \E order \in Orders(links) :
               crawl' = [crawl EXCEPT
                            !.i = @ + 1,
                            !.fetches = Append(@, url),
                            !.page_contents = IF html_content THEN Append(@, url) ELSE @,
                            !.urls = IF html_content THEN AddPagination(@, order) ELSE @]
    /\ UNCHANGED <<cand, page, fetch>>
    /\ UNCHANGED <<sigVars, pipeVars, apiVars, parseVars, batchVars, faultVars, cacheVars>>

\* the loop ends when the iterator has passed the last URL of the list;
\* scrape_conferences then parses every fetched page
ParseFetched ==
    /\ crawl.pc = "discover"
    /\ crawl.i >= Len(crawl.urls)
    /\ crawl' = [crawl EXCEPT
                    !.pc = "remaining",
                    !.parsed = crawl.page_contents,
                    !.remaining = SelectSeq(crawl.urls,
                                      LAMBDA url : \A n \in 1..Len(crawl.page_contents) :
                                                       crawl.page_contents[n] # url)]
    /\ UNCHANGED <<cand, page, fetch>>
    /\ UNCHANGED <<sigVars, pipeVars, apiVars, parseVars, batchVars, faultVars, cacheVars>>

\* the loop over remaining_urls: the page is fetched again and parsed when
\* that succeeds
FetchRemaining ==
    /\ crawl.pc = "remaining"
    /\ crawl.remaining # <<>>
    /\ \E html_content \in BOOLEAN :
           crawl' = [crawl EXCEPT
                        !.remaining = Tail(@),
                        !.fetches = Append(@, Head(crawl.remaining)),
                        !.parsed = IF html_content THEN Append(@, Head(crawl.remaining)) ELSE @]
    /\ UNCHANGED <<cand, page, fetch>>
    /\ UNCHANGED <<sigVars, pipeVars, apiVars, parseVars, batchVars, faultVars, cacheVars>>

\* every page has been handled
CrawlDone ==
    /\ crawl.pc = "remaining"
    /\ crawl.remaining = <<>>
    /\ crawl' = [crawl EXCEPT !.pc = "done"]
    /\ UNCHANGED <<cand, page, fetch>>
    /\ UNCHANGED <<sigVars, pipeVars, apiVars, parseVars, batchVars, faultVars, cacheVars>>

CrawlNext ==
    \/ DiscoverPage
    \/ ParseFetched
    \/ FetchRemaining
    \/ CrawlDone

\* a scrape pass begins over some site
CrawlInit ==
    /\ crawl \in {NewCrawl(sitemap) : sitemap \in SiteMaps}
    /\ cand = Idle
    /\ page = Idle
    /\ fetch = Idle
    /\ ssrnFile = NoFile
    /\ confFile = NoFile
    /\ csvFile = NoExport
    /\ run = IdleRun
    /\ prev = Summary(IdleRun)
    /\ runs = 0
    /\ confA = ExampleA
    /\ confB = ExampleA
    /\ altered = FALSE
    /\ edits = 0
    /\ scraperSig = <<<<>>, <<>>>>
    /\ pipelineSig = <<<<>>, <<>>>>
    /\ call = NoCall
    /\ cache = [enable_cache |-> TRUE, entries |-> NoFieldsObject]
    /\ answer = BareReply(<<>>, FALSE)
    /\ parses = ParseBoth(BareReply(<<>>, FALSE))
    /\ batch = IdleBatch
    /\ unreadable = {}
    /\ proc = NoProcessor

\* the discovery of listing pages
CrawlSpec == CrawlInit /\ [][CrawlNext]_vars

\* the same, with a scraper that keeps running: every fetch returns or
\* fails within its timeouts
CrawlFairSpec == CrawlInit /\ [][CrawlNext]_vars /\ WF_vars(CrawlNext)

(***************************************************************************)
(* The extraction step under the configured API key                        *)
(* (process_conferences_batch's key test, step2_process_with_claude)       *)
(***************************************************************************)
\* config.get('claude_api.api_key') when the configuration holds null
NoneKey == "<None>"

\* what the configuration holds as claude_api.api_key: nothing, the empty
\* default, the placeholder, a blank, a key
ApiKeys == {NoneKey, "", "your_claude_api_key_here", " ", "sk-ant-api03-key"}

\* faulty variant of KeyMissing: only a falsy key counts as missing
KeyMissing_FalsyOnly(api_key) == api_key \in {NoneKey, ""}

\* not self.claude_config['api_key'] or
\* self.claude_config['api_key'] == 'your_claude_api_key_here'
KeyMissing(api_key) ==
    \/ api_key \in {NoneKey, ""}
    \/ api_key = "your_claude_api_key_here"

\* [requests, result_df]: the rows an extraction request is made for and the
\* frame returned; results[i] is what the extraction call of row i returns
process_conferences_batch(api_key, conferences_df, results) ==
    IF Len(conferences_df) = 0
    THEN [requests |-> <<>>, result_df |-> conferences_df]
    ELSE IF KeyMissing(api_key)
    THEN [requests |-> <<>>, result_df |-> WithEmptyColumns(conferences_df)]
    ELSE [requests |-> conferences_df,
          result_df |-> [i \in 1..Len(conferences_df) |->
                            ProcessedRow(conferences_df[i], results[i])]]

\* step2_process_with_claude: a scraper is made from the configuration and
\* its process_conferences_batch is awaited
Step2WithKey ==
    /\ run.pc = "extract"
    /\ \E results \in [1..Len(run.new_conferences) -> ExtractionResults] :
           LET out == process_conferences_batch(run.api_key, run.new_conferences, results)
           IN  run' = [run EXCEPT !.pc = "merge",
                                  !.stages = Append(@, "extract"),
                                  !.api_calls = out.requests,
                                  !.processed = out.result_df]
    /\ UNCHANGED <<ssrnFile, confFile, csvFile, prev, runs>>
    /\ UNCHANGED <<sigVars, apiVars, parseVars, batchVars, faultVars, cacheVars, scrapeVars>>

KeyNext ==
    \/ Step2WithKey
    \/ Merge
    \/ MergeFail
    \/ Export

\* the stores after the scrape passes of `passes` runs, the earlier run
\* having processed what it found: [ssrn, conf]
StoresAfter(passes, elements, outcomes, result) ==
    IF passes = 1
    THEN [ssrn |-> scrape_conferences(NoFile, TRUE, elements, outcomes, 1).file,
          conf |-> NoFile]
    ELSE LET first == IF elements = <<>> THEN NoFile
                      ELSE scrape_conferences(NoFile, TRUE, <<elements[1]>>,
                                              <<outcomes[1]>>, 1).file
             rows == find_new_conferences_for_claude(first, NoFile, FALSE).rows
         IN  [ssrn |-> scrape_conferences(first, TRUE, elements, outcomes, 2).file,
              conf |-> IF rows = <<>> THEN NoFile
                       ELSE update_conferences_json(
                                [i \in 1..Len(rows) |-> ProcessedRow(rows[i], result)],
                                NoFile, 1)]

\* a run has found new records and is about to process them; the
\* configuration holds one of the keys
KeyInit ==
    /\ \E passes \in 1..MaxRuns, elements \in Listings, api_key \in ApiKeys :
       \E outcomes \in [1..Len(elements) -> DetailOutcomes], result \in ExtractionResults :
           LET stores == StoresAfter(passes, elements, outcomes, result)
               new == find_new_conferences_for_claude(stores.ssrn, stores.conf, FALSE)
           IN  /\ new.found /\ new.rows # <<>>
               /\ ssrnFile = stores.ssrn
               /\ confFile = stores.conf
               /\ runs = passes
               /\ run = [IdleRun EXCEPT !.pc = "extract",
                                        !.force_scrape = TRUE,
                                        !.scraped = TRUE,
                                        !.fetched = TRUE,
                                        !.stages = <<"scrape", "find">>,
                                        !.final_before = stores.conf.conferences,
                                        !.new_conferences = new.rows]
                        @@ [api_key |-> api_key]
    /\ csvFile = NoExport
    /\ prev = Summary(IdleRun)
    /\ confA = ExampleA
    /\ confB = ExampleA
    /\ altered = FALSE
    /\ edits = 0
    /\ scraperSig = <<<<>>, <<>>>>
    /\ pipelineSig = <<<<>>, <<>>>>
    /\ call = NoCall
    /\ cache = [enable_cache |-> TRUE, entries |-> NoFieldsObject]
    /\ answer = BareReply(<<>>, FALSE)
    /\ parses = ParseBoth(BareReply(<<>>, FALSE))
    /\ batch = IdleBatch
    /\ unreadable = {}
    /\ proc = NoProcessor
    /\ cand = Idle
    /\ page = Idle
    /\ fetch = Idle
    /\ crawl = Idle

\* the extraction, merge and export of a run under each configured key
KeySpec == KeyInit /\ [][KeyNext]_vars

\* a scrape pass has parsed its listing pages: one or two candidates
CandInit ==
    /\ cand \in {NewPass(impl, fetch_details,
                         IF impl = "unified" THEN elements
                         ELSE [i \in 1..Len(elements) |-> EarlierElement(elements[i])]) :
                     impl \in {"unified", "earlier"}, fetch_details \in BOOLEAN,
                     elements \in UNION {[1..n -> Candidates] : n \in 1..MaxCand}}
    /\ page = Idle
    /\ fetch = Idle
    /\ crawl = Idle
    /\ ssrnFile = NoFile
    /\ confFile = NoFile
    /\ csvFile = NoExport
    /\ run = IdleRun
    /\ prev = Summary(IdleRun)
    /\ runs = 0
    /\ confA = ExampleA
    /\ confB = ExampleA
    /\ altered = FALSE
    /\ edits = 0
    /\ scraperSig = <<<<>>, <<>>>>
    /\ pipelineSig = <<<<>>, <<>>>>
    /\ call = NoCall
    /\ cache = [enable_cache |-> TRUE, entries |-> NoFieldsObject]
    /\ answer = BareReply(<<>>, FALSE)
    /\ parses = ParseBoth(BareReply(<<>>, FALSE))
    /\ batch = IdleBatch
    /\ unreadable = {}
    /\ proc = NoProcessor

\* the candidates of one scrape pass
CandSpec == CandInit /\ [][CandNext]_vars

\* before the program is started for the first time
MainInit ==
    /\ ssrnFile = NoFile
    /\ confFile = NoFile
    /\ csvFile = NoExport
    /\ run = IdleRun
    /\ prev = Summary(IdleRun)
    /\ runs = 0
    /\ confA = ExampleA
    /\ confB = ExampleA
    /\ altered = FALSE
    /\ edits = 0
    /\ scraperSig = <<<<>>, <<>>>>
    /\ pipelineSig = <<<<>>, <<>>>>
    /\ call = NoCall
    /\ cache = [enable_cache |-> TRUE, entries |-> NoFieldsObject]
    /\ answer = BareReply(<<>>, FALSE)
    /\ parses = ParseBoth(BareReply(<<>>, FALSE))
    /\ batch = IdleBatch
    /\ unreadable = {}
    /\ proc = NoProcessor
    /\ cand = Idle
    /\ page = Idle
    /\ fetch = Idle
    /\ crawl = Idle

\* runs of the program as main() starts them
MainSpec == MainInit /\ [][MainNext]_vars

\* before the first run: no store, no export, nothing damaged
FaultInit ==
    /\ ssrnFile = NoFile
    /\ confFile = NoFile
    /\ csvFile = NoExport
    /\ run = IdleRun
    /\ prev = Summary(IdleRun)
    /\ runs = 0
    /\ confA = ExampleA
    /\ confB = ExampleA
    /\ altered = FALSE
    /\ edits = 0
    /\ scraperSig = <<<<>>, <<>>>>
    /\ pipelineSig = <<<<>>, <<>>>>
    /\ call = NoCall
    /\ cache = [enable_cache |-> TRUE, entries |-> NoFieldsObject]
    /\ answer = BareReply(<<>>, FALSE)
    /\ parses = ParseBoth(BareReply(<<>>, FALSE))
    /\ batch = IdleBatch
    /\ unreadable = {}
    /\ proc = NoProcessor
    /\ cand = Idle
    /\ page = Idle
    /\ fetch = Idle
    /\ crawl = Idle

\* pipeline runs over stores that may be damaged between runs
FaultSpec == FaultInit /\ [][FaultNext]_vars

\* a run that found no new record is about to export a final store
ExportInit ==
    /\ ssrnFile = NoFile
    /\ \E n \in 1..MaxStored : \E records \in [1..n -> StoredRecords] :
           /\ confFile = StoreOf(records)
           /\ run = [IdleRun EXCEPT !.pc = "export", !.stages = <<"scrape", "find">>,
                                    !.final_before = records]
    /\ csvFile = NoExport
    /\ prev = Summary(IdleRun)
    /\ runs = 1
    /\ confA = ExampleA
    /\ confB = ExampleA
    /\ altered = FALSE
    /\ edits = 0
    /\ scraperSig = <<<<>>, <<>>>>
    /\ pipelineSig = <<<<>>, <<>>>>
    /\ call = NoCall
    /\ cache = [enable_cache |-> TRUE, entries |-> NoFieldsObject]
    /\ answer = BareReply(<<>>, FALSE)
    /\ parses = ParseBoth(BareReply(<<>>, FALSE))
    /\ batch = IdleBatch
    /\ unreadable = {}
    /\ proc = NoProcessor
    /\ cand = Idle
    /\ page = Idle
    /\ fetch = Idle
    /\ crawl = Idle

\* the export of a final store
ExportSpec == ExportInit /\ [][Export]_vars

\* a processor has been made, with or without caching, over a cache file
CacheInit ==
    /\ proc \in {NewProcessor(enable_cache, file) :
                     enable_cache \in BOOLEAN, file \in CacheFiles}
    /\ unreadable = {}
    /\ call = NoCall
    /\ cache = [enable_cache |-> TRUE, entries |-> NoFieldsObject]
    /\ ssrnFile = NoFile
    /\ confFile = NoFile
    /\ csvFile = NoExport
    /\ run = IdleRun
    /\ prev = Summary(IdleRun)
    /\ runs = 0
    /\ confA = ExampleA
    /\ confB = ExampleA
    /\ altered = FALSE
    /\ edits = 0
    /\ scraperSig = <<<<>>, <<>>>>
    /\ pipelineSig = <<<<>>, <<>>>>
    /\ answer = BareReply(<<>>, FALSE)
    /\ parses = ParseBoth(BareReply(<<>>, FALSE))
    /\ batch = IdleBatch
    /\ cand = Idle
    /\ page = Idle
    /\ fetch = Idle
    /\ crawl = Idle

\* the calls of one processor
CacheSpec == CacheInit /\ [][CacheNext]_vars

\* a dict and its copy, with their signatures
SigInit ==
    /\ confA \in SeedConfs
    /\ confB = confA
    /\ altered = TRUE
    /\ edits = 0
    /\ scraperSig = <<Scraper_create_conference_signature(confA),
                      Scraper_create_conference_signature(confA)>>
    /\ pipelineSig = <<Pipeline_create_conference_signature(confA),
                       Pipeline_create_conference_signature(confA)>>
    /\ ssrnFile = NoFile
    /\ confFile = NoFile
    /\ csvFile = NoExport
    /\ run = IdleRun
    /\ prev = Summary(IdleRun)
    /\ runs = 0
    /\ call = NoCall
    /\ cache = [enable_cache |-> TRUE, entries |-> NoFieldsObject]
    /\ answer = BareReply(<<>>, FALSE)
    /\ parses = ParseBoth(BareReply(<<>>, FALSE))
    /\ batch = IdleBatch
    /\ unreadable = {}
    /\ proc = NoProcessor
    /\ cand = Idle
    /\ page = Idle
    /\ fetch = Idle
    /\ crawl = Idle

\* the signature on bounded inputs
SigSpec == SigInit /\ [][SigNext]_vars

\* a processor is constructed, with or without its cache
ApiInit ==
    /\ call = NoCall
    /\ cache \in {[enable_cache |-> b, entries |-> NoFieldsObject] : b \in BOOLEAN}
    /\ ssrnFile = NoFile
    /\ confFile = NoFile
    /\ csvFile = NoExport
    /\ run = IdleRun
    /\ prev = Summary(IdleRun)
    /\ runs = 0
    /\ confA = ExampleA
    /\ confB = ExampleA
    /\ altered = FALSE
    /\ edits = 0
    /\ scraperSig = <<<<>>, <<>>>>
    /\ pipelineSig = <<<<>>, <<>>>>
    /\ answer = BareReply(<<>>, FALSE)
    /\ parses = ParseBoth(BareReply(<<>>, FALSE))
    /\ batch = IdleBatch
    /\ unreadable = {}
    /\ proc = NoProcessor
    /\ cand = Idle
    /\ page = Idle
    /\ fetch = Idle
    /\ crawl = Idle

\* extraction calls
ApiSpec == ApiInit /\ [][ApiNext]_vars

\* a reply that is one object, parsed
ParseInit ==
    /\ answer \in {BareReply(payload, pretty) : payload \in Payloads, pretty \in BOOLEAN}
    /\ parses = ParseBoth(answer)
    /\ batch = IdleBatch
    /\ unreadable = {}
    /\ proc = NoProcessor
    /\ cand = Idle
    /\ page = Idle
    /\ fetch = Idle
    /\ crawl = Idle
    /\ call = NoCall
    /\ cache = [enable_cache |-> TRUE, entries |-> NoFieldsObject]
    /\ ssrnFile = NoFile
    /\ confFile = NoFile
    /\ csvFile = NoExport
    /\ run = IdleRun
    /\ prev = Summary(IdleRun)
    /\ runs = 0
    /\ confA = ExampleA
    /\ confB = ExampleA
    /\ altered = FALSE
    /\ edits = 0
    /\ scraperSig = <<<<>>, <<>>>>
    /\ pipelineSig = <<<<>>, <<>>>>

\* reply parsing on bounded texts
ParseSpec == ParseInit /\ [][ParseNext]_vars

\* process_conferences_batch is entered with a frame of rows
BatchInit ==
    /\ batch \in {NewBatch(SubSeq(BatchRows, 1, n), max_concurrent, key) :
                     n \in 0..MaxBatch, max_concurrent \in 1..MaxConcurrent, key \in BOOLEAN}
    /\ answer = BareReply(<<>>, FALSE)
    /\ parses = ParseBoth(BareReply(<<>>, FALSE))
    /\ call = NoCall
    /\ cache = [enable_cache |-> TRUE, entries |-> NoFieldsObject]
    /\ ssrnFile = NoFile
    /\ confFile = NoFile
    /\ csvFile = NoExport
    /\ run = IdleRun
    /\ prev = Summary(IdleRun)
    /\ runs = 0
    /\ confA = ExampleA
    /\ confB = ExampleA
    /\ altered = FALSE
    /\ edits = 0
    /\ scraperSig = <<<<>>, <<>>>>
    /\ pipelineSig = <<<<>>, <<>>>>
    /\ unreadable = {}
    /\ proc = NoProcessor
    /\ cand = Idle
    /\ page = Idle
    /\ fetch = Idle
    /\ crawl = Idle

\* batches of extraction calls
BatchSpec == BatchInit /\ [][BatchNext]_vars

\* batches of extraction calls on an event loop that keeps running what
\* is ready, where every request returns or times out
BatchFairSpec == BatchInit /\ [][BatchNext]_vars /\ WF_vars(BatchNext)

(***************************************************************************)
(* Properties of the identity signature (checked under SigSpec)            *)
(***************************************************************************)
SignaturesAgree ==
    /\ scraperSig[1] = scraperSig[2]
    /\ pipelineSig[1] = pipelineSig[2]

\* C1: the signature is unchanged when an input is altered only by changing
\* letter case, by inserting or deleting characters whose lower-case form is
\* outside [a-z0-9\s], or by lengthening or shortening a whitespace run
\* (leading and trailing whitespace included).
C1_SignatureUnchangedByAlteration == altered => SignaturesAgree

\* C1 witness: two alterations have been applied and the title differs
C1_Witness ==
    /\ altered
    /\ edits = 2
    /\ "title" \in DOMAIN confA
    /\ confA.title # confB.title
    /\ confA.title # None
    /\ Len(scraperSig[1]) > 3

\* C2 as stated: the two records of the example have the same signature
\* (the hyphen of "10-12" counts as a space).
C2_ExampleSignaturesEqual ==
    (confA = ExampleA /\ confB = ExampleB) => SignaturesAgree

\* C2 amended: the signature of ("3rd Finance Conf.", "NY, USA",
\* "10-12 Jan 2026") equals that of ("3RD FINANCE CONF", "ny usa",
\* "1012 jan 2026") and differs from that of ("3RD FINANCE CONF", "ny usa",
\* "10 12 jan 2026"): a punctuation character between two alphanumerics is
\* deleted and the alphanumerics are joined.
C2_ExampleSignatureJoinsDigits ==
    /\ (confA = ExampleA /\ confB = ExampleC) => SignaturesAgree
    /\ (confA = ExampleA /\ confB = ExampleB) =>
           /\ scraperSig[1] # scraperSig[2]
           /\ pipelineSig[1] # pipelineSig[2]

\* C2 witness: the example's first record compared with the joined form
C2_Witness ==
    /\ confA = ExampleA
    /\ confB = ExampleC
    /\ scraperSig[2] = <<"3","r","d"," ","f","i","n","a","n","c","e"," ","c","o","n","f","|","n","y"," ","u","s","a","|","1","0","1","2"," ","j","a","n"," ","2","0","2","6">>

\* normalisation in one pass, as the specification words it: lower-case,
\* characters outside [a-z0-9\s] dropped, a whitespace run becomes one space.
\* `out` is the text produced so far, `in_run` tells that the last character
\* produced closes a whitespace run still open.
RECURSIVE SpecNormalizeFrom(_, _, _)
SpecNormalizeFrom(text, out, in_run) ==
    IF text = <<>> THEN out
    ELSE LET c == CharLower(Head(text))
         IN  IF c \in WhitespaceChars
             THEN SpecNormalizeFrom(Tail(text), IF in_run THEN out ELSE Append(out, " "), TRUE)
             ELSE IF c \in LowerSet \cup DigitChars
             THEN SpecNormalizeFrom(Tail(text), Append(out, c), FALSE)
             ELSE SpecNormalizeFrom(Tail(text), out, in_run)

SpecNormalize(value) == IF Falsy(value) THEN <<>> ELSE SpecNormalizeFrom(value, <<>>, FALSE)

\* SpecNormalize without the space at either end
SpecNormalizeTrimmed(value) ==
    LET n == SpecNormalize(value)
        from == IF n # <<>> /\ n[1] = " " THEN 2 ELSE 1
        to == IF Len(n) >= 2 /\ n[Len(n)] = " " THEN Len(n) - 1 ELSE Len(n)
    IN  SubSeq(n, from, to)

SpecSignature(conf) ==
    SpecNormalize(Get(conf, "title", <<>>)) \o <<"|">>
        \o SpecNormalize(Get(conf, "location", <<>>)) \o <<"|">>
        \o SpecNormalize(Get(conf, "conference_dates", <<>>))

SpecSignatureTrimmed(conf) ==
    SpecNormalizeTrimmed(Get(conf, "title", <<>>)) \o <<"|">>
        \o SpecNormalizeTrimmed(Get(conf, "location", <<>>)) \o <<"|">>
        \o SpecNormalizeTrimmed(Get(conf, "conference_dates", <<>>))

\* C3 as stated: the signature is normalize(title) | normalize(location) |
\* normalize(dates) with normalize = lower-case, delete the characters
\* outside [a-z0-9\s], collapse whitespace runs to one space; both
\* implementations return it.
C3_SignatureIsSpecNormalForm ==
    /\ scraperSig = <<SpecSignature(confA), SpecSignature(confB)>>
    /\ pipelineSig = scraperSig

\* C3 amended: as stated, and normalize also removes the whitespace left at
\* the start and the end of the text; empty, None and missing fields give an
\* empty part; the scraper's and the driver's implementation agree.
C3_SignatureIsTrimmedNormalForm ==
    /\ scraperSig = <<SpecSignatureTrimmed(confA), SpecSignatureTrimmed(confB)>>
    /\ pipelineSig = scraperSig

\* C3 witness: a record with punctuation, upper case and spaces, and a record
\* without any signature field
C3_Witness ==
    /\ confA = ExampleA
    /\ confB = [description |-> <<"a">>]
    /\ pipelineSig = <<<<"3","r","d"," ","f","i","n","a","n","c","e"," ","c","o","n","f","|","n","y"," ","u","s","a","|","1","0","1","2"," ","j","a","n"," ","2","0","2","6">>, <<"|", "|">>>>

(***************************************************************************)
(* Properties of the stores across pipeline runs (checked under Spec)      *)
(***************************************************************************)
Range(q) == {q[i] : i \in 1..Len(q)}

IsPrefix(p, q) == Len(p) <= Len(q) /\ SubSeq(q, 1, Len(p)) = p

\* the fields the signature is made of
IdentityFields(r) == <<r.title, r.location, r.conference_dates>>

\* C4: conferences.json never holds two records with the same signature,
\* whatever the flags of the runs.
C4_FinalStoreHasNoDuplicateSignature ==
    \A i, j \in 1..Len(confFile.conferences) :
        FinalSignature(confFile.conferences[i]) = FinalSignature(confFile.conferences[j])
            => i = j

\* C5: ssrn.json never holds two records with the same signature, also
\* after a pass whose list holds one conference twice, and saving the list
\* of a pass once more leaves the records of ssrn.json as they are.
C5_RawStoreSaveIsIdempotentAndDuplicateFree ==
    /\ Cardinality(SigsOf(ssrnFile.conferences)) = Len(ssrnFile.conferences)
    /\ _save_conferences_to_json(run.scraped_conferences, ssrnFile, runs).conferences
           = ssrnFile.conferences

\* C5 witness: a pass handed the save two records of one signature and the
\* store holds one of them
C5_Witness ==
    /\ run.pc = "find"
    /\ Len(run.scraped_conferences) = 2
    /\ Scraper_create_conference_signature(run.scraped_conferences[1])
           = Scraper_create_conference_signature(run.scraped_conferences[2])
    /\ Len(ssrnFile.conferences) = 1

\* C6: the records that were in ssrn.json and in conferences.json when the
\* run started are still there, unchanged and in the same order, at every
\* point of the run and after it, whatever its flags and its result.
C6_StoresAreAppendOnly ==
    /\ IsPrefix(run.raw_before, ssrnFile.conferences)
    /\ IsPrefix(run.final_before, confFile.conferences)

\* C6 witness: a run that found both stores filled has ended and both grew
C6_Witness ==
    /\ run.pc = "done"
    /\ run.raw_before # <<>>
    /\ run.final_before # <<>>
    /\ Len(ssrnFile.conferences) > Len(run.raw_before)
    /\ Len(confFile.conferences) > Len(run.final_before)

\* the second of two runs over the same listing content, the first of which
\* ended with success, none with force_reprocess
SameListingAgain ==
    /\ runs = 2
    /\ prev.result = "success"
    /\ prev.scraped /\ prev.fetched
    /\ run.scraped /\ run.fetched
    /\ run.listing = prev.listing
    /\ ~prev.force_reprocess /\ ~run.force_reprocess

\* C7: the second of two runs over the same listing content returns no
\* record from its scrape, fetches no detail page, selects no row for
\* extraction, makes no extraction call, and leaves the records of both
\* stores as the first run left them; the first run did fill both stores.
C7_SecondRunOverSameListingChangesNothing ==
    SameListingAgain =>
        /\ run.scraped_conferences = <<>>
        /\ run.detail_fetched = <<>>
        /\ run.new_conferences = <<>>
        /\ run.api_calls = <<>>
        /\ run.pc \notin {"extract", "merge"}
        /\ ssrnFile.conferences = run.raw_before
        /\ confFile.conferences = run.final_before
        /\ run.raw_before # <<>>
        /\ run.final_before # <<>>

\* C7 witness: such a second run has ended
C7_Witness ==
    /\ SameListingAgain
    /\ run.pc = "done"
    /\ run.result = "success"
    /\ Len(run.listing) = 2

\* C8: in a scrape pass an element with a valid title is put among the new
\* elements iff its signature is not among the signatures of the records
\* ssrn.json held when the pass started (none when the file was missing);
\* the other elements are not detail-fetched and add no record to ssrn.json.
C8_NewIffSignatureAbsent ==
    (run.scraped /\ run.fetched) =>
        /\ run.existing_signatures = SigsOf(run.raw_before)
        /\ \A e \in Range(run.listing) :
               ~TitleTooShort(e) =>
                   (e \in Range(run.new_elements)
                        <=> Scraper_create_conference_signature(e) \notin SigsOf(run.raw_before))
        /\ \A e \in Range(run.listing) :
               Scraper_create_conference_signature(e) \in SigsOf(run.raw_before) =>
                   /\ e.ssrn_link \notin Range(run.detail_fetched)
                   /\ \A i \in (Len(run.raw_before) + 1)..Len(ssrnFile.conferences) :
                          ssrnFile.conferences[i].ssrn_link # e.ssrn_link

\* C8 witness: a pass over two valid elements, the first known, the second
\* new and saved
C8_Witness ==
    /\ run.scraped /\ run.fetched
    /\ Len(run.listing) = 2
    /\ ~TitleTooShort(run.listing[1])
    /\ Scraper_create_conference_signature(run.listing[1]) \in SigsOf(run.raw_before)
    /\ run.new_elements = <<run.listing[2]>>
    /\ Len(ssrnFile.conferences) = Len(run.raw_before) + 1

\* the run's listing is <<old, new>> in some order: old has the title,
\* location and dates of a record of both stores, new is valid and of a
\* signature not stored
OneStoredOneNew(old, new) ==
    /\ Range(run.listing) = {old, new}
    /\ Len(run.listing) = 2
    /\ old # new
    /\ \E r \in Range(run.raw_before) : IdentityFields(r) = IdentityFields(old)
    /\ \E r \in Range(run.final_before) :
           <<r["Title"], r["Location"], r["Conference Date"]>> = IdentityFields(old)
    /\ ~TitleTooShort(new) /\ ~NoDates(new)
    /\ Scraper_create_conference_signature(new) \notin SigsOf(run.raw_before)

\* the second of two consecutive runs, the first ended with success, the
\* second without force_reprocess, has scraped
SecondRunScraped ==
    /\ runs = 2
    /\ prev.result = "success"
    /\ ~run.force_reprocess
    /\ run.scraped /\ run.fetched

\* C9: when the second run's listing holds one conference already stored
\* and one valid new conference, the detail page is fetched for the new one
\* only, extraction calls are made for the new one only, and a run that ends
\* with success has added exactly one record, the new one, to
\* conferences.json.
C9_OnlyTheNewConferenceIsProcessed ==
    \A old, new \in Entries :
        (SecondRunScraped /\ OneStoredOneNew(old, new)) =>
            /\ run.detail_fetched = <<new.ssrn_link>>
            /\ \A row \in Range(run.api_calls) : row.ssrn_link = new.ssrn_link
            /\ Len(run.api_calls) <= 1
            /\ (run.pc = "done" /\ run.result = "success") =>
                   /\ Len(confFile.conferences) = Len(run.final_before) + 1
                   /\ confFile.conferences[Len(confFile.conferences)]["Link"] = new.ssrn_link

\* C9 witness: such a second run has called the extraction and ended with
\* success
C9_Witness ==
    /\ SecondRunScraped
    /\ \E old, new \in Entries : OneStoredOneNew(old, new)
    /\ Len(run.api_calls) = 1
    /\ run.pc = "done"
    /\ run.result = "success"

(***************************************************************************)
(* Properties of the stages of a run (checked under Spec)                  *)
(***************************************************************************)
\* the stages of a run in their order; extraction and merge are left out
\* together when no record is new
StagesWithNewRecords == <<"scrape", "find", "extract", "merge", "export">>
StagesWithoutNewRecords == <<"scrape", "find", "export">>

\* C19: a run visits its stages in the order scrape, find, extract, merge,
\* export; when a stage reports failure the run stops there with failure and
\* no later stage runs: no merge and no export write after a failure before
\* them.
C19_StagesInOrderAndFailureHalts ==
    /\ \/ IsPrefix(run.stages, StagesWithNewRecords)
       \/ IsPrefix(run.stages, StagesWithoutNewRecords)
    /\ run.result = "success" =>
           (run.pc = "done" /\ run.stages # <<>> /\ run.stages[Len(run.stages)] = "export")
    /\ run.result = "failure" =>
           /\ run.pc = "done"
           /\ run.stages # <<>> /\ run.stages[Len(run.stages)] = run.failed_at
           /\ run.failed_at \in {"scrape", "find", "extract", "merge"} =>
                  (confFile.conferences = run.final_before /\ csvFile = run.csv_before)

\* C19 witness: the second run of a pipeline has failed at the extraction
\* stage; the stores and the export of the first run are as it left them
C19_Witness ==
    /\ runs = 2
    /\ prev.result = "success"
    /\ run.result = "failure"
    /\ run.stages = <<"scrape", "find", "extract">>
    /\ Len(confFile.conferences) > 0
    /\ csvFile.exists

\* C20: when no listing page can be fetched, the run stops at the listing
\* stage and returns failure, without extraction, merge or export, whether
\* or not ssrn.json exists.
C20_UnreachableListingsHaltTheRun ==
    (run.scraped /\ ~run.fetched) =>
        /\ \A i \in 1..Len(run.stages) : run.stages[i] \notin {"extract", "merge", "export"}
        /\ run.pc = "done" => run.result = "failure"

\* every extraction call of the run came back with the empty result
EveryCallFailed ==
    /\ run.api_calls # <<>>
    /\ Len(run.processed) = Len(run.new_conferences)
    /\ \A i \in 1..Len(run.processed) :
           run.processed[i] = ProcessedRow(run.new_conferences[i], EmptyResult)

\* C29: when every extraction call of a run has failed, the run does not
\* fail at the extraction stage; unless writing conferences.json itself
\* fails it ends with success after merge and export, and every new record
\* is at the end of the final store with four empty extracted fields.
C29_FailedExtractionIsNotFatal ==
    (EveryCallFailed /\ run.pc \in {"merge", "export", "done"}) =>
        /\ run.failed_at \notin {"extract", "export"}
        /\ (run.pc = "done" /\ run.failed_at # "merge") =>
               /\ run.result = "success"
               /\ run.stages = StagesWithNewRecords
               /\ csvFile.exists
               /\ Len(confFile.conferences)
                      = Len(run.final_before) + Len(run.new_conferences)
               /\ \A i \in 1..Len(run.new_conferences) :
                      LET record == confFile.conferences[Len(run.final_before) + i]
                      IN  /\ record["Title"] = run.new_conferences[i].title
                          /\ record["Deadline"] = <<>>
                          /\ record["Submission Fee"] = <<>>
                          /\ record["Registration Fee"] = <<>>
                          /\ record["Continent"] = <<>>

\* C29 witness: a run whose two extraction calls failed has merged both
\* records and exported
C29_Witness ==
    /\ EveryCallFailed
    /\ Len(run.api_calls) = 2
    /\ run.pc = "done"
    /\ run.result = "success"
    /\ Len(confFile.conferences) = Len(run.final_before) + 2

\* the signatures of the records of a final store
FinalSigsOf(records) == {FinalSignature(records[i]) : i \in 1..Len(records)}

\* C30: a run that halts after its scrape pass and before the merge leaves
\* the records it scraped in ssrn.json; a following run without
\* force_reprocess selects for extraction exactly the records of ssrn.json
\* whose signature is not in conferences.json; and after a run that ended
\* with success every signature of ssrn.json is in conferences.json.
C30_HaltedRunIsResumedByTheNext ==
    /\ (run.result = "failure" /\ run.failed_at \in {"find", "extract", "merge"}) =>
           /\ IsPrefix(run.raw_before, ssrnFile.conferences)
           /\ \A i \in 1..Len(run.scraped_conferences) :
                  Scraper_create_conference_signature(run.scraped_conferences[i])
                      \in SigsOf(ssrnFile.conferences)
           /\ confFile.conferences = run.final_before
    /\ (/\ runs = 2 /\ prev.result = "failure"
        /\ ~run.force_reprocess
        /\ run.pc \in {"extract", "merge", "export", "done"}
        /\ run.failed_at \notin {"scrape", "find"}) =>
           run.new_conferences
               = SelectSeq(ssrnFile.conferences,
                           LAMBDA conf : RawSignature(conf) \notin FinalSigsOf(run.final_before))
    /\ run.result = "success" =>
           \A i \in 1..Len(ssrnFile.conferences) :
               RawSignature(ssrnFile.conferences[i]) \in FinalSigsOf(confFile.conferences)

\* C30 witness: the first run persisted raw records and halted before the
\* merge; the second run, without force_reprocess, selected them and ended
\* with success
C30_Witness ==
    /\ runs = 2
    /\ prev.result = "failure" /\ prev.scraped /\ prev.fetched
    /\ run.raw_before # <<>>
    /\ run.final_before = <<>>
    /\ ~run.force_reprocess
    /\ run.new_conferences # <<>>
    /\ \A i \in 1..Len(run.raw_before) : run.raw_before[i] \in Range(run.new_conferences)
    /\ run.result = "success"

\* the metadata of an existing store fit its records
MetadataFits(file) ==
    file.exists =>
        /\ file.metadata.total_conferences = Len(file.conferences)
        /\ file.metadata.last_updated # 0
        /\ file.metadata.created # 0

\* a step that changes the store stamps it with the time of the write and
\* leaves the creation time of an existing store as it was
WriteKeepsCreated(file, written) ==
    /\ file.exists => (written.exists /\ written.metadata.created = file.metadata.created)
    /\ written # file =>
           /\ written.metadata.last_updated = runs
           /\ ~file.exists => written.metadata.created = runs

StoresKeepCreated ==
    /\ WriteKeepsCreated(ssrnFile, ssrnFile')
    /\ WriteKeepsCreated(confFile, confFile')

\* C37: in ssrn.json and conferences.json the total count equals the
\* number of records and the last-updated time is set; every write sets
\* the last-updated time to the time of the write and leaves the creation
\* time as it was when the store was first created.
C37_StoreMetadataIsKeptUpToDate ==
    /\ [](MetadataFits(ssrnFile) /\ MetadataFits(confFile))
    /\ [][StoresKeepCreated]_vars

\* C37 witness: both stores were created in the first run and written
\* again in the second
C37_Witness ==
    /\ runs = 2
    /\ run.raw_before # <<>> /\ Len(ssrnFile.conferences) > Len(run.raw_before)
    /\ run.final_before # <<>> /\ Len(confFile.conferences) > Len(run.final_before)
    /\ ssrnFile.metadata = [created |-> 1, last_updated |-> 2,
                             total_conferences |-> Len(ssrnFile.conferences)]
    /\ confFile.metadata = [created |-> 1, last_updated |-> 2,
                             total_conferences |-> Len(confFile.conferences)]

(***************************************************************************)
(* Properties of the extraction calls (checked under ApiSpec)              *)
(***************************************************************************)
\* C10: an extraction call never raises to its caller, whatever its input
\* and whatever each request meets; when it has returned it has returned a
\* ConferenceResult, after at most retry_count requests.
C10_ExtractionCallNeverRaises ==
    /\ call.pc # "raised"
    /\ call.attempt <= retry_count
    /\ call.pc = "returned" =>
           DOMAIN call.result = (IF call.api = "claude" THEN DOMAIN EmptyResult
                                                         ELSE DOMAIN DeepSeekEmptyResult)

\* C10 witness: a call has returned the empty result after a timeout, a
\* reply without the expected structure and a reply text that is JSON but
\* no object
C10_Witness ==
    /\ call.pc = "returned"
    /\ call.api = "deepseek"
    /\ call.replies = <<"timeout", "no_structure", "non_object">>
    /\ call.result = DeepSeekEmptyResult

\* C11: every result an extraction call returns has its four fields as text:
\* no field is null, a number or a nested value, whatever JSON types the
\* reply carries under the four keys.
C11_ReturnedFieldsAreText ==
    call.pc = "returned" => \A f \in DOMAIN call.result : IsStr(call.result[f])

\* a reply with status 200, by its label in the history of a call
IsStatusOK(label) == label \notin {"exception", "timeout", "429", "500"}
\* a reply with status 200 whose body is read and parsed without an exception
IsParsedReply(label) == label \in {"object", "embedded", "pairs", "garbage"}
\* the all-empty result of the implementation that made the call
EmptyResultOf(c) == IF c.api = "deepseek" THEN DeepSeekEmptyResult ELSE EmptyResult

\* C12 as stated: a call sends at most retry_count requests, sends none after
\* the first status-OK reply, and when every attempt failed it returns the
\* all-empty result after the last attempt.
C12_StopsAtFirstStatusOKReply ==
    /\ Len(call.replies) <= retry_count
    /\ \A i \in 1..Len(call.replies) :
           IsStatusOK(call.replies[i]) => (i = Len(call.replies) /\ call.pc = "returned")
    /\ (call.pc = "returned" /\ ~call.from_cache
            /\ \A i \in 1..Len(call.replies) : ~IsStatusOK(call.replies[i]))
           => (Len(call.replies) = retry_count /\ call.result = EmptyResultOf(call))

\* C12, amended: a call sends at most retry_count requests; it stops at the
\* first status-OK reply whose body is read and parsed without an exception;
\* every other attempt (rate limit, timeout, exception, other status, a
\* status-OK reply whose body raises) is a failed one, and when every attempt
\* failed the call returns the all-empty result after attempt retry_count.
C12_StopsAtFirstParsedReply ==
    /\ Len(call.replies) <= retry_count
    /\ call.attempt = Len(call.replies)
    /\ \A i \in 1..Len(call.replies) :
           IsParsedReply(call.replies[i]) => (i = Len(call.replies) /\ call.pc = "returned")
    /\ (call.pc = "returned" /\ ~call.from_cache
            /\ \A i \in 1..Len(call.replies) : ~IsParsedReply(call.replies[i]))
           => (Len(call.replies) = retry_count /\ call.result = EmptyResultOf(call))

\* C12 witness: a call has returned the empty result after a rate limit, a
\* status-OK reply whose body is no JSON, and a server error
C12_Witness ==
    /\ call.pc = "returned"
    /\ call.api = "claude"
    /\ call.replies = <<"429", "json_raises", "500">>
    /\ call.waits = <<1, 2>>
    /\ call.result = EmptyResult

\* the part of a description the fingerprint takes
First500(description) ==
    SubSeq(description, 1, IF Len(description) < 500 THEN Len(description) ELSE 500)
\* equal title, location and first 500 characters of the description
SameFingerprint(a, b) ==
    /\ a.title = b.title
    /\ a.location = b.location
    /\ First500(a.description) = First500(b.description)

ScraperKeyOf ==
    [submission_deadline |-> "Submission Deadline", submission_fees |-> "Submission Fees",
     registration_fees |-> "Registration Fees", continent |-> "Continent"]
DeepSeekKeyOf ==
    [submission_deadline |-> "Submission Deadline", submission_fee |-> "Submission Fee",
     registration_fee |-> "Registration Fee", continent |-> "Continent"]

\* an object that holds exactly the four expected keys, with string values
WellFormed(key_of, payload) ==
    /\ Len(payload) = 4
    /\ {payload[i].key : i \in 1..Len(payload)} = {key_of[f] : f \in DOMAIN key_of}
    /\ \A i \in 1..Len(payload) : IsStr(payload[i].value)

\* the value an object holds under a key
ValueOf(payload, key) ==
    payload[CHOOSE i \in 1..Len(payload) : payload[i].key = key].value

\* the four values of a well-formed object, as a result
ValuesOf(key_of, payload) == [f \in DOMAIN key_of |-> ValueOf(payload, key_of[f])]

\* C14 as stated: parsing a reply that is exactly one well-formed four-field
\* object returns its four values exactly, nothing altered, trimmed or
\* blanked, in both implementations.
C14_ParsingRecoversValuesExactly ==
    /\ WellFormed(ScraperKeyOf, answer.payload) =>
           parses.scraper.bare.result = ValuesOf(ScraperKeyOf, answer.payload)
    /\ WellFormed(DeepSeekKeyOf, answer.payload) =>
           parses.deepseek.bare.result = ValuesOf(DeepSeekKeyOf, answer.payload)

\* the words the scraper takes for "not found"
NotFoundWords ==
    {<<"n","a","n">>, <<"n","u","l","l">>, <<"n","o","n","e">>, <<"n","/","a">>}
\* a value as the scraper hands it on: blank for a not-found word, else
\* without the whitespace around it
Cleaned(value) ==
    IF value = <<>> \/ StrLower(value) \in NotFoundWords THEN <<>> ELSE Strip(value)

\* C14, amended: DeepSeekProcessor returns the four values exactly;
\* UnifiedConferenceScraper returns each value without the whitespace around
\* it, and the empty string for a value that is nan, null, none or n/a in
\* any case; every other value is returned exactly.
C14_ParsingRecoversCleanedValues ==
    /\ WellFormed(ScraperKeyOf, answer.payload) =>
           \A f \in DOMAIN ScraperKeyOf :
               LET value == ValueOf(answer.payload, ScraperKeyOf[f])
               IN  /\ parses.scraper.bare.result[f] = Cleaned(value)
                   /\ (StrLower(value) \notin NotFoundWords /\ value = Strip(value))
                          => parses.scraper.bare.result[f] = value
    /\ WellFormed(DeepSeekKeyOf, answer.payload) =>
           parses.deepseek.bare.result = ValuesOf(DeepSeekKeyOf, answer.payload)

\* C14 witness: the scraper has parsed the object with a padded and an N/A
\* value, DeepSeek's parser the same values under its keys
C14_Witness ==
    /\ answer.payload = ClaudeObject
    /\ answer.pretty
    /\ parses.scraper.bare.result.registration_fees = <<"$","4","0","0">>
    /\ parses.scraper.bare.result.submission_fees = <<>>
    /\ parses.scraper.bare.result.continent = <<"E","u","r","o","p","e">>

\* C15: parsing a well-formed object wrapped in code-fence markers (``` or
\* ```json before, ``` after, with or without line breaks between markers
\* and object) returns what parsing the object alone returns.
C15_FencedParseEqualsBareParse ==
    (answer.fence # "none" /\ answer.before = <<>> /\ answer.after = <<>>) =>
        /\ WellFormed(ScraperKeyOf, answer.payload) =>
               parses.scraper.text = parses.scraper.bare
        /\ WellFormed(DeepSeekKeyOf, answer.payload) =>
               parses.deepseek.text = parses.deepseek.bare

\* the substring of a reply from its first '{' to its last '}' is one object
BraceSubstringParses(text) ==
    /\ FindBrace(text) # 0
    /\ JsonLoads(SubSeq(text, FindBrace(text), RFindBrace(text))).ok

\* C16: with explanatory text before and/or after a well-formed object,
\* parsing returns what parsing the object alone returns when the substring
\* from the first '{' to the last '}' parses; when it does not, each field
\* is what its pattern matches in the text.
C16_ParseWithExplanatoryTextRecoversValues ==
    (answer.fence = "none" /\ (answer.before # <<>> \/ answer.after # <<>>)) =>
        /\ WellFormed(ScraperKeyOf, answer.payload) =>
               IF BraceSubstringParses(ReplyText(answer))
               THEN parses.scraper.text = parses.scraper.bare
               ELSE \A f \in DOMAIN ScraperKeyOf :
                        parses.scraper.text.result[f]
                            = Cleaned(ReSearch(ScraperKeyOf[f], ReplyText(answer)).group)
        /\ WellFormed(DeepSeekKeyOf, answer.payload) =>
               IF BraceSubstringParses(ReplyText(answer))
               THEN parses.deepseek.text = parses.deepseek.bare
               ELSE \A f \in DOMAIN DeepSeekKeyOf :
                        parses.deepseek.text.result[f]
                            = ReSearch(DeepSeekKeyOf[f], ReplyText(answer)).group

(***************************************************************************)
(* Properties of a batch (checked under BatchSpec)                         *)
(***************************************************************************)
\* the four result columns of a row of the result frame
ResultColumns(row) ==
    [submission_deadline |-> row["Submission Deadline"],
     submission_fees |-> row["Submission Fees"],
     registration_fees |-> row["Registration Fees"],
     continent |-> row["Continent"]]

\* C17: a batch over N candidates returns N rows in the input order; the row
\* of an item that failed (its call raised inside the task, or the task
\* itself ended with an exception) has four empty fields, every other row
\* has the result of its own item, whatever order the tasks completed in.
C17_BatchKeepsOrderAndIsolatesFailures ==
    batch.pc = "done" =>
        /\ Len(batch.result_df) = Len(batch.input)
        /\ \A k \in 1..Len(batch.input) :
               /\ \A column \in DOMAIN batch.input[k] :
                      batch.result_df[k][column] = batch.input[k][column]
               /\ ResultColumns(batch.result_df[k])
                      = IF batch.key /\ batch.tasks[k].state = "returned"
                                     /\ ~batch.tasks[k].caught
                        THEN batch.tasks[k].result
                        ELSE EmptyResult

\* C17 witness: a batch of three rows has returned; the second task completed
\* first, with an exception caught inside it, the first returned fields, the
\* third task ended with an exception
C17_Witness ==
    /\ batch.pc = "done"
    /\ Len(batch.input) = 3
    /\ batch.completed = <<2, 1, 3>>
    /\ batch.tasks[2].caught
    /\ batch.tasks[1].result = FilledResult
    /\ batch.tasks[3].state = "failed"
    /\ ResultColumns(batch.result_df[1]) = FilledResult
    /\ ResultColumns(batch.result_df[2]) = EmptyResult

\* C18: at every moment of a batch the number of tasks inside an extraction
\* call (backoff waits included) is at most the configured maximum
\* concurrency.
C18_InFlightWithinMaxConcurrent ==
    /\ Cardinality(InFlight(batch)) <= batch.max_concurrent
    /\ batch.pc = "gather" =>
           batch.permits = batch.max_concurrent - Cardinality(InFlight(batch))

\* C18 witness: with a maximum of one, a task is in its third attempt inside
\* the call while the other task of the chunk waits for the semaphore
C18_Witness ==
    /\ batch.pc = "gather"
    /\ batch.max_concurrent = 1
    /\ InFlight(batch) = {2}
    /\ batch.tasks[2].attempt = 2
    /\ batch.tasks[1].state = "waiting"

\* C24: within one call, every attempt that is followed by another attempt
\* is followed by a sleep first, whatever made it fail (status 429, timeout,
\* exception, any other status that is not 200); the sleep after attempt k
\* (k from 0) is 2^k seconds and never more than 16.
C24_BackoffBeforeEveryRetry ==
    \A k \in 0..(Len(call.slept) - 2) :
        /\ call.slept[k + 1] = 2 ^ k
        /\ call.slept[k + 1] <= 16

\* C27: the rows of a batch are taken in chunks of ChunkSize in input
\* order, one chunk after the other: a task outside the chunks gathered so
\* far has not been started, every task of an earlier chunk has finished,
\* and one pause has been taken after every finished chunk except the last.
C27_ChunksRunOneAfterAnother ==
    batch.pc \in {"gather", "done"} /\ batch.tasks # <<>> =>
        /\ batch.i % ChunkSize = 0
        /\ \A k \in 1..Len(batch.tasks) :
               /\ k > batch.i + ChunkSize => batch.tasks[k].state = "created"
               /\ k <= batch.i => batch.tasks[k].state \in {"returned", "failed"}
        /\ batch.pauses = batch.i \div ChunkSize
        /\ batch.pc = "done" => batch.pauses = (Len(batch.tasks) - 1) \div ChunkSize

\* C27 witness: the second chunk of a batch is running after one pause
\* while the first chunk has finished
C27_Witness ==
    /\ batch.pc = "gather"
    /\ batch.i = ChunkSize
    /\ batch.pauses = 1
    /\ \E k \in 1..Len(batch.tasks) : k > ChunkSize /\ batch.tasks[k].state = "calling"

\* every task of the batch has ended and the semaphore has its value back
AllTasksEnded ==
    /\ \A k \in 1..Len(batch.tasks) :
           /\ batch.tasks[k].state \in {"returned", "failed"}
           /\ batch.tasks[k].state = "returned" => batch.tasks[k].called
    /\ batch.permits = batch.max_concurrent

\* C28: every batch terminates, whatever fails in its tasks; when it has,
\* every task has ended (each returned task after entering its extraction
\* call), in every chunk, and every task has released the semaphore.
C28_BatchTerminatesWithEveryItemAttempted ==
    /\ <>(batch.pc = "done")
    /\ []((batch.pc = "done" /\ batch.tasks # <<>>) => AllTasksEnded)

\* C28 witness: a batch of two chunks has terminated; every task of the
\* first chunk failed, a task of the second chunk returned fields
C28_Witness ==
    /\ batch.pc = "done"
    /\ Len(batch.tasks) > ChunkSize
    /\ \A k \in 1..ChunkSize : batch.tasks[k].state = "failed" \/ batch.tasks[k].caught
    /\ \E k \in (ChunkSize + 1)..Len(batch.tasks) :
           batch.tasks[k].state = "returned" /\ batch.tasks[k].result = FilledResult
    /\ batch.permits = batch.max_concurrent

(***************************************************************************)
(* Properties of runs over damaged stores (checked under FaultSpec)        *)
(***************************************************************************)
\* C21: an unreadable ssrn.json or conferences.json is treated as an empty
\* store and never aborts a run: no run raises, and no run returns failure
\* from a stage because the stage could not parse a store file (the
\* record-selection stage fails only when ssrn.json does not exist).
C21_UnreadableStoreNeverAbortsTheRun ==
    /\ run.result # "raised"
    /\ (run.result = "failure" /\ run.failed_at = "find") => ~ssrnFile.exists

(***************************************************************************)
(* Properties of the flat export (checked under ExportSpec)                *)
(***************************************************************************)
\* number of positions of q that hold x
Count(q, x) == Cardinality({i \in 1..Len(q) : q[i] = x})

\* "sample" is in the text, in any letter case
HasSample(text) == Contains(StrLower(text), <<"s","a","m","p","l","e">>)

\* none of the filtered keywords is in Title, Location or Link
HasNoKeyword(record) ==
    \A field \in {"Title", "Location", "Link"} : \A keyword \in SampleKeywords :
        ~Contains(StrLower(record[field]), keyword)

\* C22: after an export, a stored record whose Title contains "sample" in
\* any letter case is still in the final store and is not in the export;
\* a stored record without any filtered keyword in Title, Location and Link
\* is in the export once for each time it is stored.
C22_SampleTitlesStoredButNotExported ==
    run.result = "success" =>
        /\ confFile.conferences = run.final_before
        /\ \A i \in 1..Len(confFile.conferences) :
               LET record == confFile.conferences[i]
               IN  /\ HasSample(record["Title"]) => Count(csvFile.rows, record) = 0
                   /\ HasNoKeyword(record) =>
                          Count(csvFile.rows, record) = Count(confFile.conferences, record)

\* C22 witness: an export of a store that holds a record with SAMPLE in its
\* title next to one without a keyword; the export has fewer rows
C22_Witness ==
    /\ run.result = "success"
    /\ \E i, j \in 1..Len(confFile.conferences) :
           /\ HasSample(confFile.conferences[i]["Title"])
           /\ HasNoKeyword(confFile.conferences[j])
    /\ Len(csvFile.rows) < Len(confFile.conferences)
    /\ Len(csvFile.rows) > 0

\* one of the seven formats of parse_posted_date parses the text
StrptimeParses(date_str) == date_str \in {"10 Aug 2025", "11 Aug 2025", "2025-08-12"}

\* the text holds four digits in a row
HasYear(date_str) == date_str \in {"10 Aug 2025", "11 Aug 2025", "2025-08-12",
                                    "Aug 2025", "31 Feb 2026"}

\* the day a parsable posted date names, as year * 10000 + month * 100 + day
DayOf(date_str) ==
    CASE date_str = "10 Aug 2025" -> 20250810
      [] date_str = "11 Aug 2025" -> 20250811
      [] date_str = "2025-08-12" -> 20250812

\* C23 as stated: the rows of the export are ordered by posted date, newest
\* first, rows of one posted date by title ascending, and a row whose posted
\* date is empty or unparsable comes after every row with a parsable one.
C23_UnparsableDatesComeLast ==
    run.result = "success" =>
        \A i, j \in 1..Len(csvFile.rows) :
            i < j =>
                LET a == csvFile.rows[i]
                    b == csvFile.rows[j]
                    pa == StrptimeParses(a["Posted Date"])
                    pb == StrptimeParses(b["Posted Date"])
                IN  /\ (pa /\ pb) =>
                           \/ DayOf(a["Posted Date"]) > DayOf(b["Posted Date"])
                           \/ /\ DayOf(a["Posted Date"]) = DayOf(b["Posted Date"])
                              /\ ~TextLess(b["Title"], a["Title"])
                    /\ ~(~pa /\ pb)

\* C23, amended: the rows are ordered by the day parse_posted_date gives,
\* newest first (an unparsable date that holds four digits in a row counts
\* as 1 January of that year), rows of one day by title ascending in code
\* point order, and a row whose posted date is empty or holds no year comes
\* after every row whose posted date holds one.
C23_RowsSortedByPostedDateThenTitle ==
    run.result = "success" =>
        \A i, j \in 1..Len(csvFile.rows) :
            i < j =>
                LET a == csvFile.rows[i]
                    b == csvFile.rows[j]
                    da == IF StrptimeParses(a["Posted Date"]) THEN DayOf(a["Posted Date"])
                          ELSE parse_posted_date(a["Posted Date"])
                    db == IF StrptimeParses(b["Posted Date"]) THEN DayOf(b["Posted Date"])
                          ELSE parse_posted_date(b["Posted Date"])
                IN  /\ da > db \/ (da = db /\ ~TextLess(b["Title"], a["Title"]))
                    /\ ~(~HasYear(a["Posted Date"]) /\ HasYear(b["Posted Date"]))

\* C23 witness: an export of three rows: two of one posted date in title
\* order and behind them one without posted date
C23_Witness ==
    /\ run.result = "success"
    /\ Len(csvFile.rows) = 3
    /\ csvFile.rows[1]["Posted Date"] = "10 Aug 2025"
    /\ csvFile.rows[2]["Posted Date"] = "10 Aug 2025"
    /\ csvFile.rows[1]["Title"] # csvFile.rows[2]["Title"]
    /\ csvFile.rows[3]["Posted Date"] = ""
    /\ confFile.conferences[1]["Posted Date"] = ""

(***************************************************************************)
(* Properties of the extraction cache (checked under CacheSpec)            *)
(***************************************************************************)
\* task i got its result from a status-200 reply that was parsed
ParsedOK(i) == proc.tasks[i].ok /\ ~proc.tasks[i].from_cache

\* C25: an entry is in the cache only if it was loaded from the cache file
\* or written for a call whose status-200 reply was parsed: the empty result
\* of an exhausted call is never cached, and a call is answered from the
\* cache only for such an entry, so a call after an exhausted one with the
\* same inputs sends a request again; with caching disabled the cache stays
\* empty, no call is answered from it and the cache file is never written.
C25_CacheHoldsOnlyParsedReplies ==
    /\ \A key \in DOMAIN proc.cache :
           \/ key \in DOMAIN proc.loaded /\ proc.cache[key] = proc.loaded[key]
           \/ \E i \in 1..Len(proc.tasks) :
                  /\ proc.tasks[i].key = key
                  /\ ParsedOK(i)
                  /\ proc.tasks[i].result = proc.cache[key]
    /\ \A i \in 1..Len(proc.tasks) :
           LET task == proc.tasks[i]
           IN  /\ task.from_cache =>
                      /\ proc.enable_cache
                      /\ task.requests = 0
                      /\ \/ task.key \in DOMAIN proc.loaded
                         \/ \E j \in 1..Len(proc.tasks) :
                                j # i /\ proc.tasks[j].key = task.key /\ ParsedOK(j)
               /\ (task.pc = "returned" /\ ~task.from_cache /\ ~task.ok) =>
                      task.requests = retry_count
    /\ ~proc.enable_cache =>
           /\ proc.cache = NoFieldsObject
           /\ proc.writes = 0
           /\ proc.file = proc.file_before

\* C25 witness: with caching enabled a call was exhausted, a second call
\* with the same inputs has sent a request of its own, and the processor is
\* closed with nothing cached for them
C25_Witness ==
    /\ proc.state = "closed"
    /\ proc.enable_cache
    /\ Len(proc.tasks) = 2
    /\ proc.tasks[1].key = proc.tasks[2].key
    /\ proc.tasks[1].pc = "returned" /\ ~proc.tasks[1].ok /\ ~proc.tasks[1].from_cache
    /\ proc.tasks[1].requests = retry_count
    /\ proc.tasks[2].requests > 0
    /\ proc.tasks[1].key \notin DOMAIN proc.file.entries

\* a step removes no entry of the cache and replaces none
OnlyGrows ==
    \A key \in DOMAIN proc.cache :
        key \in DOMAIN proc'.cache /\ proc'.cache[key] = proc.cache[key]

\* a step that writes the cache file is the closing of the processor
SavedOnExitOnly ==
    (proc'.file # proc.file \/ proc'.writes # proc.writes) =>
        (proc.state = "open" /\ proc'.state = "closed")

\* C26: while a processor is in use its cache only gains entries (no entry
\* is removed, none is replaced by a different value), the cache file is
\* written only when the processor is closed, and a closed processor with
\* caching enabled has written it exactly once, also when its block ended
\* with an exception.
C26_CacheOnlyGrowsAndIsSavedOnce ==
    /\ []((proc.state = "closed" /\ proc.enable_cache) => proc.writes = 1)
    /\ [][OnlyGrows /\ SavedOnExitOnly]_vars


(***************************************************************************)
(* Properties of runs started by main() (checked under MainSpec)           *)
(***************************************************************************)
\* C31: a run started with no override flag over an existing raw store
\* performs no listing fetch and no raw-store write.
C31_NoFetchWithoutOverride ==
    (run.main /\ run.argv = {} /\ run.raw_before # <<>>) =>
        /\ ~run.scraped
        /\ ~run.fetched
        /\ ssrnFile.conferences = run.raw_before

(***************************************************************************)
(* Properties of the candidates of a pass (checked under CandSpec)         *)
(***************************************************************************)
\* the fields of a candidate other than its description
OtherFields(element) == DOMAIN element \ {"description"}

\* the i-th candidate's detail fetch gave no text
NoTextFetched(i) == cand.outcomes[i] \in {"unreachable", "raises", "no_text"}

\* C32: the record returned for a candidate has the candidate's title,
\* dates, location, link and posted date; its description is the listing
\* description when the detail fetch failed, raised or gave no text (or no
\* link exists), and otherwise the listing description or the non-empty
\* fetched text; whatever one detail fetch meets, every candidate of the
\* pass is processed.
C32_DetailChangesOnlyTheDescription ==
    /\ \A i \in 1..Len(cand.results) :
           LET element == cand.new_elements[i]
               result == cand.results[i]
               fetched == get_detailed_info(element.ssrn_link, cand.outcomes[i]).description
           IN  result.kept =>
                   /\ DOMAIN result.conference = DOMAIN element
                   /\ \A key \in OtherFields(element) : result.conference[key] = element[key]
                   /\ (NoTextFetched(i) \/ element.ssrn_link = <<>>) =>
                          result.conference.description = element.description
                   /\ result.conference.description # element.description =>
                          /\ result.conference.description = fetched
                          /\ fetched # ""
                   /\ (cand.impl = "unified" /\ ~NoTextFetched(i) /\ element.ssrn_link # <<>>) =>
                          result.conference.description = fetched
    /\ (cand.pc = "done" /\ cand.fetch_details) =>
           /\ Len(cand.results) = Len(cand.new_elements)
           /\ cand.conferences = KeptOf(cand.results)

\* C32 witness: the first candidate's detail fetch raised and its record
\* keeps the listing description; the second candidate's description was
\* replaced by the fetched text
C32_Witness ==
    /\ cand.pc = "done" /\ cand.fetch_details
    /\ Len(cand.conferences) = 2
    /\ cand.outcomes[1] = "raises"
    /\ cand.conferences[1].description = cand.new_elements[1].description
    /\ cand.outcomes[2] = "text"
    /\ cand.conferences[2].description = DetailText(cand.new_elements[2].ssrn_link)

\* C33: no candidate returned by the unified scraper's scrape_conferences,
\* with or without details, has a title of 5 characters or fewer or an
\* empty conference-dates field, and no detail page is requested for such
\* a candidate.
C33_NoShortTitleNoEmptyDates ==
    cand.impl = "unified" =>
        /\ \A i \in 1..Len(cand.conferences) :
               /\ ~TitleTooShort(cand.conferences[i])
               /\ ~NoDates(cand.conferences[i])
        /\ \A i \in 1..Len(cand.results) :
               (TitleTooShort(cand.new_elements[i]) \/ NoDates(cand.new_elements[i])) =>
                   ~cand.results[i].fetched

(***************************************************************************)
(* Properties of the parsing of a listing page (checked under PageSpec)    *)
(***************************************************************************)
\* the node at position li matches at least one pattern
Qualifies(li) ==
    \E k \in 1..NumPatterns :
        PatternMatches(k, page.list_items[li].text, page.list_items[li].link)

\* the node at position li matches more than one pattern
MatchesSeveral(li) ==
    Cardinality({k \in 1..NumPatterns :
        PatternMatches(k, page.list_items[li].text, page.list_items[li].link)}) > 1

\* C34: parse_conference_list appends each qualifying node once, to the
\* first pattern that matches it; the returned nodes are in document
\* order, no two have the same visible text, each text is returned with
\* its first qualifying node, and every returned node has a link.
C34_ParsedNodesAreUniqueAndOrdered ==
    page.pc = "parsed" =>
        /\ \A li \in 1..Len(page.list_items) :
               Cardinality({n \in 1..Len(page.conference_elements) :
                               page.conference_elements[n].li = li})
                   = IF Qualifies(li) THEN 1 ELSE 0
        /\ \A n \in 1..Len(page.conference_elements) :
               LET e == page.conference_elements[n]
               IN  /\ PatternMatches(e.pattern, page.list_items[e.li].text,
                                      page.list_items[e.li].link)
                   /\ \A k \in 1..(e.pattern - 1) :
                          ~PatternMatches(k, page.list_items[e.li].text,
                                          page.list_items[e.li].link)
        /\ \A m, n \in 1..Len(page.unique_elements) :
               /\ m < n => page.unique_elements[m] < page.unique_elements[n]
               /\ m # n => page.list_items[page.unique_elements[m]].text
                               # page.list_items[page.unique_elements[n]].text
        /\ \A n \in 1..Len(page.unique_elements) :
               LET li == page.unique_elements[n]
               IN  /\ Qualifies(li)
                   /\ page.list_items[li].link # NoLink
                   /\ \A earlier \in 1..(li - 1) :
                          Qualifies(earlier) =>
                              page.list_items[earlier].text # page.list_items[li].text
        /\ \A li \in 1..Len(page.list_items) :
               Qualifies(li) =>
                   \E n \in 1..Len(page.unique_elements) :
                       page.list_items[page.unique_elements[n]].text = page.list_items[li].text

\* C34 witness: a page whose first and third node have the same text and
\* match several patterns, with another qualifying node between them; the
\* first and the second node are returned
C34_Witness ==
    /\ page.pc = "parsed"
    /\ Len(page.list_items) = 3
    /\ page.list_items[1].text = page.list_items[3].text
    /\ page.list_items[1].link # page.list_items[3].link
    /\ Qualifies(3) /\ MatchesSeveral(1)
    /\ page.list_items[2].text # page.list_items[1].text
    /\ page.unique_elements = <<1, 2>>

(***************************************************************************)
(* Properties of a page fetch (checked under FetchSpec)                    *)
(***************************************************************************)
\* the strategies of a fetch in their order; one entry per async attempt
StrategyOrder(f) ==
    IF f.impl = "earlier"
    THEN [n \in 1..f.retry_count |-> "async"] \o <<"selenium", "sync">>
    ELSE IF f.enable_selenium THEN <<"selenium", "sync">> ELSE <<"sync">>

\* C35: the strategies started are an initial stretch of the fixed order;
\* every strategy before the last one started has failed; a finished fetch
\* returns what its last strategy returned; it returns None only when
\* every enabled strategy was tried and failed.
C35_StrategiesInOrderFirstSuccessWins ==
    /\ IsPrefix(fetch.tried, StrategyOrder(fetch))
    /\ \A n \in 1..(Len(fetch.tried) - 1) : ~ReturnsText(fetch.outcomes[n])
    /\ fetch.pc # "done" => \A n \in 1..Len(fetch.tried) : ~ReturnsText(fetch.outcomes[n])
    /\ fetch.pc = "done" =>
           /\ fetch.tried # <<>>
           /\ fetch.result = fetch.outcomes[Len(fetch.outcomes)]
           /\ fetch.result = "None" =>
                  /\ fetch.tried = StrategyOrder(fetch)
                  /\ \A n \in 1..Len(fetch.tried) : ~ReturnsText(fetch.outcomes[n])

\* C35 witness: the earlier scraper's async attempts are used up, the
\* headless browser fails, and the plain session returns the page
C35_Witness ==
    /\ fetch.pc = "done"
    /\ fetch.impl = "earlier"
    /\ fetch.tried = StrategyOrder(fetch)
    /\ fetch.result = "content"

(***************************************************************************)
(* Properties of the discovery of listing pages (checked under             *)
(* CrawlFairSpec)                                                          *)
(***************************************************************************)
\* no value is at two positions of q
NoRepeats(q) == \A m, n \in 1..Len(q) : m # n => q[m] # q[n]

\* C36: over a site with finitely many pagination links the discovery and
\* the parsing of the listing pages end, although the URL list grows while
\* it is iterated; the list never holds a URL twice, every URL of the list
\* is a listing page of the site, every page found on a fetched page is in
\* the list, and no page is parsed twice in a pass.
C36_DiscoveryTerminatesWithoutRepeats ==
    /\ <>(crawl.pc = "done")
    /\ [](/\ NoRepeats(crawl.urls)
          /\ NoRepeats(crawl.parsed)
          /\ \A n \in 1..Len(crawl.urls) : crawl.urls[n] \in SiteUrls
          /\ crawl.i <= Len(crawl.urls)
          /\ \A n \in 1..Len(crawl.page_contents) :
                 \A link \in crawl.sitemap[crawl.page_contents[n]] :
                     FullUrl(link) \in SiteUrls =>
                         \E k \in 1..Len(crawl.urls) : crawl.urls[k] = FullUrl(link)
          /\ crawl.pc = "done" =>
                 \A n \in 1..Len(crawl.urls) :
                     Cardinality({k \in 1..Len(crawl.fetches) :
                                     crawl.fetches[k] = crawl.urls[n]}) \in {1, 2})

\* C36 witness: the second page was found on the main page and the third
\* on the second, which links back to the main page; all three were parsed
C36_Witness ==
    /\ crawl.pc = "done"
    /\ crawl.urls = <<MainUrl, FullUrl(HrefPage2), FullUrl(HrefStart20)>>
    /\ crawl.sitemap[MainUrl] = {HrefPage2, HrefPage2Absolute}
    /\ crawl.sitemap[FullUrl(HrefPage2)] = {HrefStart20, MainUrl}
    /\ crawl.parsed = crawl.urls

(***************************************************************************)
(* Properties of the extraction step without a key (checked under KeySpec) *)
(***************************************************************************)
\* the four columns of extracted fields
ExtractedColumns == {"Submission Deadline", "Submission Fees", "Registration Fees", "Continent"}

\* step 2 of the run has returned its frame
Extracted == Len(run.stages) >= 3 /\ run.stages[3] = "extract" /\ run.failed_at # "extract"

\* the merge of the run has written conferences.json
Merged == Len(run.stages) >= 4 /\ run.stages[4] = "merge" /\ run.failed_at # "merge"

\* C38: when the configured API key is missing, empty or the placeholder,
\* the extraction step makes no request and returns every input row, in
\* input order, with its own fields unchanged and the four extracted fields
\* empty; the merge then appends one record per such row, in order, to the
\* records the final store held, as it does for the rows of a run with a key
C38_NoKeyNoRequestAllRowsMerged ==
    /\ (Extracted /\ run.api_key \in {NoneKey, "", "your_claude_api_key_here"}) =>
           /\ run.api_calls = <<>>
           /\ Len(run.processed) = Len(run.new_conferences)
           /\ \A i \in 1..Len(run.new_conferences) :
                  /\ DOMAIN run.processed[i] = DOMAIN run.new_conferences[i] \cup ExtractedColumns
                  /\ \A key \in DOMAIN run.new_conferences[i] :
                         run.processed[i][key] = run.new_conferences[i][key]
                  /\ \A column \in ExtractedColumns : run.processed[i][column] = <<>>
           /\ Merged =>
                  \A i \in 1..Len(run.new_conferences) :
                      LET record == confFile.conferences[Len(run.final_before) + i]
                      IN  /\ record["Title"] = run.new_conferences[i].title
                          /\ record["Link"] = run.new_conferences[i].ssrn_link
                          /\ record["Deadline"] = <<>>
                          /\ record["Submission Fee"] = <<>>
                          /\ record["Registration Fee"] = <<>>
                          /\ record["Continent"] = <<>>
    /\ Merged =>
           /\ Len(confFile.conferences) = Len(run.final_before) + Len(run.new_conferences)
           /\ SubSeq(confFile.conferences, 1, Len(run.final_before)) = run.final_before
           /\ confFile.metadata.total_conferences = Len(confFile.conferences)

\* C38 witness: a run under the placeholder key has ended with success; its
\* new row was merged, with empty fields, after the record of an earlier run
C38_Witness ==
    /\ run.api_key = "your_claude_api_key_here"
    /\ run.pc = "done" /\ run.result = "success"
    /\ run.api_calls = <<>>
    /\ run.final_before # <<>>
    /\ Len(run.new_conferences) = 1
    /\ Len(confFile.conferences) = Len(run.final_before) + 1
    /\ confFile.conferences[Len(confFile.conferences)]["Continent"] = <<>>

====
